---- MODULE Spec2Model ----
(***************************************************************************)
(* Cosmo Previews: the reconciliation core of the GitHub action.           *)
(*                                                                         *)
(* One pull request, its commits and its cumulative diff (the GitHub       *)
(* side), the Cosmo backend holding feature subgraphs and feature flags    *)
(* (the wgc side), and the runs of the action (create / update / destroy)  *)
(* that query the first and issue commands against the second.             *)
(***************************************************************************)
EXTENDS Integers, Sequences, FiniteSets, TLC

VARIABLES
    head,        \* file -> state of the file at the PR head, relative to the base
    last,        \* file -> status of the file in the PR's last commit ("none": untouched)
    ncommits,    \* number of commits of the PR
    pr,          \* "new" (not opened yet), "open", "closed"
    pushed,      \* commits were pushed to the open PR that no update run has seen yet
    subgraphs,   \* Cosmo: the feature subgraphs that exist, as <<namespace, name>>
    flags,       \* Cosmo: <<namespace, name>> of each existing flag -> its feature subgraphs
    nruns,       \* number of runs of the action started so far
    runs,        \* run id -> the local state of that invocation of the action
    faults,      \* number of remote calls that failed on their own
    cfgTouched,  \* history: a commit changed the manifest since the PR was (re)opened
    cfgEver,     \* history: some commit of the PR changed the manifest
    written,     \* history: flag key -> the create or update executed last for the flag
    aborted,     \* history: some run ended failed for another reason than a changed manifest
    probe        \* one call of a function of the action on its own: arguments and result

vars == <<head, last, ncommits, pr, pushed, subgraphs, flags, nruns, runs, faults, cfgTouched,
          cfgEver, written, aborted, probe>>

----------------------------------------------------------------------------
(* Bounds of the model *)

\* the number of commits pushed to the PR
MaxCommits == 3

\* the number of runs of the action
MaxRuns == 4

\* the number of remote calls that fail on their own (a command that exits non-zero
\* or prints something else than its result); they fall into the last run of a
\* behaviour: no commit and no run follows a run in which a call failed
MaxFaults == 1

----------------------------------------------------------------------------
(* Paths.  A path is [dir, stem, ext]: the directory segments, the file    *)
(* name without its extension, and the extension.                          *)

PrNumber == 42

Cwd == <<"work">>

FileA == [dir |-> <<"schemas">>, stem |-> "products", ext |-> "graphql"]
FileB == [dir |-> <<"schemas">>, stem |-> "users", ext |-> "gql"]
FileCfg == [dir |-> <<".github">>, stem |-> "cosmo", ext |-> "yaml"]

Files == {FileA, FileB, FileCfg}

\* files that exist on the base branch; FileB is a schema the PR adds
BaseFiles == {FileA, FileCfg}

\* a path is absolute when its first directory segment is the root "/"
IsAbsolute(p) == p.dir # <<>> /\ p.dir[1] = "/"

\* the segments of a path normalized: "", "." and the root are dropped, ".." takes
\* the segment before it away (and is dropped at the root)
RECURSIVE NormalizeOnto(_, _)
NormalizeOnto(done, rest) ==
    IF rest = <<>> THEN done
    ELSE IF Head(rest) \in {"", ".", "/"} THEN NormalizeOnto(done, Tail(rest))
    ELSE IF Head(rest) = ".."
         THEN NormalizeOnto(IF done = <<>> THEN <<>> ELSE SubSeq(done, 1, Len(done) - 1),
                            Tail(rest))
    ELSE NormalizeOnto(Append(done, Head(rest)), Tail(rest))

\* resolve(base, p) of pathe for an absolute base, given by its segments below the
\* root: an absolute p is kept, a relative p is taken from base; the result is
\* normalized
Resolve(base, p) ==
    [p EXCEPT !.dir = NormalizeOnto(<<>>, IF IsAbsolute(p) THEN p.dir ELSE base \o p.dir)]

\* the schema path resolved against the directory of the manifest
SchemaPathAtManifest(cwd, configPath, schema_path) ==
    Resolve(Resolve(cwd, configPath).dir, schema_path)

\* schemaPath: resolve(process.cwd(), subgraph.schema_path)
SchemaPathOf(cwd, configPath, schema_path) == Resolve(cwd, schema_path)

\* resolve(process.cwd(), file) === subgraph.schemaPath
FileMatches(cwd, file, schemaPath) == Resolve(cwd, file) = schemaPath

RECURSIVE DropEmpty(_)
DropEmpty(s) ==
    IF s = <<>> THEN <<>>
    ELSE IF Head(s) = "" THEN DropEmpty(Tail(s))
    ELSE <<Head(s)>> \o DropEmpty(Tail(s))

\* normalizeSeparators, POSIX branch: runs of slashes collapse to one slash
normalizeSeparators(p) == [p EXCEPT !.dir = DropEmpty(p.dir)]

\* the three schema patterns **/*.graphql, **/*.gql, **/*.graphqls
SchemaPatterns == <<"graphql", "gql", "graphqls">>

\* micromatch of one path against a list of **/*.ext patterns
mmMatches(p, patterns) == \E k \in 1..Len(patterns) : p.ext = patterns[k]

RECURSIVE mm(_, _)
mm(files, patterns) ==
    IF files = <<>> THEN <<>>
    ELSE IF mmMatches(Head(files), patterns)
         THEN <<Head(files)>> \o mm(Tail(files), patterns)
         ELSE mm(Tail(files), patterns)

RECURSIVE MapNormalize(_)
MapNormalize(s) ==
    IF s = <<>> THEN <<>> ELSE <<normalizeSeparators(Head(s))>> \o MapNormalize(Tail(s))

Includes(s, x) == \E k \in 1..Len(s) : s[k] = x

----------------------------------------------------------------------------
(* The manifest (cosmo.yaml).  Version 1 is the manifest of the base       *)
(* branch, version 2 the manifest after a commit of the PR changed it.     *)

PlaceHolder == "${PR_NUMBER}"

Config(v) ==
    [namespace |-> IF v = 1 THEN "prod" ELSE "stage",
     feature_flags |-> IF v = 3 THEN <<>>
                       ELSE << [name |-> "ff", labels |-> <<"team=A">>],
                               [name |-> "beta", labels |-> <<"team=B", "env=dev">>] >>,
     subgraphs |-> IF v = 4 THEN <<>>
                   ELSE << [name |-> "products", schema_path |-> FileA,
                            routing_url |-> <<"http://products-", PlaceHolder, ".svc">>],
                           [name |-> "users", schema_path |-> FileB,
                            routing_url |-> <<"http://users.svc/", PlaceHolder, "/",
                                              PlaceHolder>>] >>]

\* the manifest a state of the manifest file holds: as on the base branch, changed,
\* or changed to declare no feature flag or no subgraph
ConfigOf(cfgState) ==
    Config(CASE cfgState = "base" -> 1
             [] cfgState = "changed" -> 2
             [] cfgState = "noflags" -> 3
             [] OTHER -> 4)

\* the check that lets every selection but the empty one pass
NoneOrSome(create, update, destroy) ==
    IF create \/ update \/ destroy THEN 1 ELSE 0

\* [create, update, destroy].filter(Boolean).length
TrueCount(create, update, destroy) ==
    (IF create THEN 1 ELSE 0) + (IF update THEN 1 ELSE 0) + (IF destroy THEN 1 ELSE 0)

\* getInputs without the check of the declared subgraphs
getInputsWithoutSubgraphCheck(create, update, destroy, cfgState) ==
    IF TrueCount(create, update, destroy) # 1 THEN [ok |-> FALSE]
    ELSE IF cfgState = "absent" THEN [ok |-> FALSE]
    ELSE LET config == ConfigOf(cfgState) IN
         IF Len(config.feature_flags) = 0 THEN [ok |-> FALSE]
         ELSE [ok |-> TRUE,
               actionType |-> IF create THEN "create" ELSE IF update THEN "update"
                                                                     ELSE "destroy",
               namespace |-> config.namespace,
               featureFlags |-> config.feature_flags,
               subgraphs |-> [k \in 1..Len(config.subgraphs) |->
                                [name |-> config.subgraphs[k].name,
                                 schemaPath |-> SchemaPathOf(Cwd, FileCfg,
                                                            config.subgraphs[k].schema_path),
                                 routingUrl |-> config.subgraphs[k].routing_url]],
               configPath |-> FileCfg]

\* getInputs: the manifest at the PR head, with each schema path resolved against
\* process.cwd()
NoInputs == [ok |-> FALSE]

getInputs(create, update, destroy, cfgState) ==
    IF TrueCount(create, update, destroy) # 1 THEN NoInputs
    ELSE IF cfgState = "absent" THEN NoInputs
    ELSE LET config == ConfigOf(cfgState)
             actionType == IF create THEN "create" ELSE IF update THEN "update" ELSE "destroy"
         IN
         IF Len(config.feature_flags) = 0 THEN NoInputs
         ELSE IF Len(config.subgraphs) = 0 THEN NoInputs
         ELSE [ok |-> TRUE,
               actionType |-> actionType,
               namespace |-> config.namespace,
               featureFlags |-> config.feature_flags,
               subgraphs |-> [k \in 1..Len(config.subgraphs) |->
                                [name |-> config.subgraphs[k].name,
                                 schemaPath |-> SchemaPathOf(Cwd, FileCfg,
                                                            config.subgraphs[k].schema_path),
                                 routingUrl |-> config.subgraphs[k].routing_url]],
               configPath |-> FileCfg]

----------------------------------------------------------------------------
(* The pull request as GitHub reports it *)

BaseState(f) == IF f \in BaseFiles THEN "base" ELSE "absent"

\* the states of a file at the PR head: as on the base branch, changed, absent, or
\* present as what GitHub reports to be the new name of a renamed file
FileStates(f) ==
    CASE f = FileA -> {"base", "changed", "absent"}
      [] f = FileB -> {"absent", "changed", "renamed"}
      [] OTHER -> {"base", "changed"}

\* every state a file of the model can have
AllStates == {"base", "changed", "absent", "renamed", "noflags", "nosubgraphs"}

\* GitHub lists files by name
FileOrder == <<FileCfg, FileA, FileB>>

\* status of a file in the PR's cumulative diff (pulls.listFiles)
DiffStatus(f, h) ==
    IF h[f] = BaseState(f) THEN "none"
    ELSE IF h[f] = "renamed" THEN "renamed"
    ELSE IF BaseState(f) = "absent" THEN "added"
    ELSE IF h[f] = "absent" THEN "removed"
    ELSE "modified"

\* status of a file in a commit that takes it from state s to state t
CommitStatus(s, t) ==
    IF s = "absent" THEN (IF t = "renamed" THEN "renamed" ELSE "added")
    ELSE IF t = "absent" THEN "removed" ELSE "modified"

RECURSIVE ListOf(_, _)
\* the entries [filename, status] of the files whose status is not "none", in order
ListOf(order, status) ==
    IF order = <<>> THEN <<>>
    ELSE IF status[Head(order)] = "none" THEN ListOf(Tail(order), status)
    ELSE <<[filename |-> Head(order), status |-> status[Head(order)]]>>
         \o ListOf(Tail(order), status)

\* octokit pulls.listFiles, all pages
listFiles(h) == ListOf(FileOrder, [f \in Files |-> DiffStatus(f, h)])

\* repos.getCommit(...).data.files is undefined
NoFileList == [f \in {} |-> "none"]

\* octokit repos.getCommit(...).data.files for the last commit
commitFiles(l) == ListOf(FileOrder, l)

ChangeTypes == <<"A", "C", "D", "M", "R", "T", "U", "X">>

statusMap(status) ==
    CASE status = "added" -> "A"
      [] status = "removed" -> "D"
      [] status = "modified" -> "M"
      [] status = "renamed" -> "R"
      [] status = "copied" -> "C"
      [] status = "changed" -> "T"
      [] status = "unchanged" -> "U"
      [] OTHER -> "X"

EmptyChangedFiles == [t \in {ChangeTypes[k] : k \in 1..Len(ChangeTypes)} |-> <<>>]

RECURSIVE Bucket(_, _)
Bucket(items, changedFiles) ==
    IF items = <<>> THEN changedFiles
    ELSE LET item == Head(items)
             changeType == statusMap(item.status)
         IN IF changeType = "R"
            THEN Bucket(Tail(items),
                        [changedFiles EXCEPT !["D"] = Append(@, item.filename),
                                             !["A"] = Append(@, item.filename)])
            ELSE Bucket(Tail(items),
                        [changedFiles EXCEPT ![changeType] = Append(@, item.filename)])

getChangedFilesFromGithubAPI(h) == Bucket(listFiles(h), EmptyChangedFiles)

RECURSIVE FilterBuckets(_, _, _)
FilterBuckets(types, allDiffFiles, filePatterns) ==
    IF types = <<>> THEN <<>>
    ELSE LET files == allDiffFiles[Head(types)] IN
         (IF Len(filePatterns) > 0 THEN MapNormalize(mm(files, filePatterns)) ELSE files)
         \o FilterBuckets(Tail(types), allDiffFiles, filePatterns)

\* the filter that leaves the Deleted bucket out
FilteredWithoutDeleted(allDiffFiles, filePatterns) ==
    FilterBuckets(<<"A", "C", "M", "R", "T", "U", "X">>, allDiffFiles, filePatterns)

getFilteredChangedFiles(allDiffFiles, filePatterns) ==
    FilterBuckets(ChangeTypes, allDiffFiles, filePatterns)

RECURSIVE SelectStatus(_, _)
SelectStatus(items, status) ==
    IF items = <<>> THEN <<>>
    ELSE IF Head(items).status = status
         THEN <<Head(items).filename>> \o SelectStatus(Tail(items), status)
         ELSE SelectStatus(Tail(items), status)

RECURSIVE NotIn(_, _)
NotIn(files, others) ==
    IF files = <<>> THEN <<>>
    ELSE IF Includes(others, Head(files)) THEN NotIn(Tail(files), others)
    ELSE <<Head(files)>> \o NotIn(Tail(files), others)

\* the revert detector looking for the files the last commit removed
RemovedFilesByStatusRemoved(n, l, changedGraphQLFilesInPr) ==
    IF n = 0 THEN <<>>
    ELSE LET removedFilePaths == SelectStatus(commitFiles(l), "removed")
             removedGraphQLFiles == MapNormalize(mm(removedFilePaths, SchemaPatterns))
         IN NotIn(removedGraphQLFiles, changedGraphQLFilesInPr)

\* the revert detector without the filter on the PR's changed files
ModifiedGraphQLFilesInLastCommit(n, l, changedGraphQLFilesInPr) ==
    IF n = 0 THEN <<>>
    ELSE LET modifiedFilePaths == SelectStatus(commitFiles(l), "modified")
         IN MapNormalize(mm(modifiedFilePaths, SchemaPatterns))

\* the revert detector taking the files of the last commit whatever their status
RemovedFilesOfAnyStatus(n, l, changedGraphQLFilesInPr) ==
    IF n = 0 THEN <<>>
    ELSE IF l = NoFileList THEN <<>>
    ELSE LET filePaths == [k \in 1..Len(commitFiles(l)) |-> commitFiles(l)[k].filename]
         IN NotIn(MapNormalize(mm(filePaths, SchemaPatterns)), changedGraphQLFilesInPr)

\* the schema files the last commit modified that are not in the PR's changed files;
\* nothing when the PR has no commit or the commit comes without a list of files
getRemovedGraphQLFilesInLastCommit(n, l, changedGraphQLFilesInPr) ==
    IF n = 0 THEN <<>>
    ELSE IF l = NoFileList THEN <<>>
    ELSE LET modifiedFilePaths == SelectStatus(commitFiles(l), "modified")
             modifiedGraphQLFiles == MapNormalize(mm(modifiedFilePaths, SchemaPatterns))
         IN NotIn(modifiedGraphQLFiles, changedGraphQLFilesInPr)

\* whether the last commit of the PR touched the manifest
hasCosmoConfigChangedInLastCommit(n, l) ==
    n > 0 /\ \E k \in 1..Len(commitFiles(l)) : commitFiles(l)[k].filename = FileCfg

----------------------------------------------------------------------------
(* Derived names and command lines *)

RECURSIVE Join(_)
Join(parts) == IF parts = <<>> THEN "" ELSE Head(parts) \o Join(Tail(parts))

\* routingUrl.replace: the first placeholder only
RECURSIVE ReplaceFirst(_, _)
ReplaceFirst(template, prNumber) ==
    IF template = <<>> THEN ""
    ELSE IF Head(template) = PlaceHolder THEN ToString(prNumber) \o Join(Tail(template))
    ELSE Head(template) \o ReplaceFirst(Tail(template), prNumber)

\* routingUrl.replaceAll('${PR_NUMBER}', prNumber.toString())
RoutingURL(template, prNumber) ==
    Join([k \in 1..Len(template) |->
            IF template[k] = PlaceHolder THEN ToString(prNumber) ELSE template[k]])

\* the name with the namespace and the number exchanged
NumberBeforeNamespace(subgraph, inputs, prNumber) ==
    subgraph.name \o "-" \o ToString(prNumber) \o "-" \o inputs.namespace

\* the template `${subgraph.name}-${inputs.namespace}-${prNumber}` at each of its sites
CreateSubgraphName(subgraph, inputs, prNumber) ==
    subgraph.name \o "-" \o inputs.namespace \o "-" \o ToString(prNumber)

RemovedSubgraphName(subgraph, inputs, prNumber) ==
    subgraph.name \o "-" \o inputs.namespace \o "-" \o ToString(prNumber)

UpdateSubgraphName(subgraph, inputs, prNumber) ==
    subgraph.name \o "-" \o inputs.namespace \o "-" \o ToString(prNumber)

DestroySubgraphName(subgraph, inputs, prNumber) ==
    subgraph.name \o "-" \o inputs.namespace \o "-" \o ToString(prNumber)

\* the flag name without the number of the PR
FlagNameWithoutNumber(featureFlag, prNumber) == featureFlag.name

\* the flag name with another separator
FlagNameUnderscore(featureFlag, prNumber) == featureFlag.name \o "_" \o ToString(prNumber)

\* the template `${featureFlag.name}-${prNumber}` at each of its sites
CreateFlagName(featureFlag, prNumber) == featureFlag.name \o "-" \o ToString(prNumber)

UpdateFlagName(featureFlag, prNumber) == featureFlag.name \o "-" \o ToString(prNumber)

DestroyFlagName(featureFlag, prNumber) == featureFlag.name \o "-" \o ToString(prNumber)

\* inputs.subgraphs.find(s => resolve(process.cwd(), file) === s.schemaPath):
\* the index of the first match, 0 for undefined
FindSubgraph(inputs, file) ==
    LET hits == {k \in 1..Len(inputs.subgraphs) :
                    FileMatches(Cwd, file, inputs.subgraphs[k].schemaPath)}
    IN IF hits = {} THEN 0 ELSE CHOOSE k \in hits : \A j \in hits : k <= j

\* the output of a list command that printed nothing
NoList == [printed |-> FALSE, names |-> {}]

\* one wgc command as the run issues it; a list command is logged with what it
\* printed, a feature-flag create or update with how it ended
Cmd(op, ns, name) ==
    [op |-> op, ns |-> ns, name |-> name, subs |-> <<>>, labels |-> <<>>,
     enabled |-> FALSE, url |-> "", base |-> "", out |-> NoList, result |-> ""]

PublishCmd(ns, name, base, url) ==
    [Cmd("publish", ns, name) EXCEPT !.base = base, !.url = url]

\* the flag command without the --feature-subgraphs and --enabled options
FlagCmdWithoutSubgraphs(commandName, ns, name, labels, subs, enabled) ==
    [Cmd("feature-flag " \o commandName, ns, name) EXCEPT !.labels = labels]

\* the flag command with the first feature subgraph only
FlagCmdFirstSubgraph(commandName, ns, name, labels, subs, enabled) ==
    [Cmd("feature-flag " \o commandName, ns, name) EXCEPT
        !.labels = labels, !.subs = SubSeq(subs, 1, 1), !.enabled = enabled]

FlagCmd(commandName, ns, name, labels, subs, enabled) ==
    [Cmd("feature-flag " \o commandName, ns, name) EXCEPT
        !.labels = labels, !.subs = subs, !.enabled = enabled]

\* one record of the outputs feature_subgraphs_to_deploy / feature_subgraphs_to_destroy
OutputConfig(name, subgraph, url) ==
    [featureSubgraphName |-> name, schemaPath |-> subgraph.schemaPath,
     routingUrl |-> url, baseSubgraphName |-> subgraph.name]

----------------------------------------------------------------------------
(* The local state of one invocation *)

RunIds == {1, 2}

\* an output of the action that was not set, and one that was
NoOutput == [set |-> FALSE, value |-> <<>>]

Output(value) == [set |-> TRUE, value |-> value]

IdleRun ==
    [pc |-> "idle", actionType |-> "none", selected |-> <<FALSE, FALSE, FALSE>>,
     procedure |-> "none", inputs |-> NoInputs,
     changed |-> <<>>, removed |-> <<>>, i |-> 0,
     names |-> <<>>, toDeploy |-> <<>>, toDestroy |-> <<>>,
     deployed |-> <<>>, errs |-> <<>>, commandName |-> "", listed |-> NoList,
     ops |-> <<>>, outDeploy |-> NoOutput, outDestroy |-> NoOutput,
     comments |-> <<>>, failed |-> FALSE, rerun |-> FALSE, pullRequest |-> TRUE]

Resting(r) == runs[r].pc \in {"idle", "done"}

\* core.setFailed followed by the end of run()
Failed(run) == [run EXCEPT !.pc = "done", !.failed = TRUE]

\* the command issued last exits non-zero and the loop goes on to its next entry
RejectedAndOn(issued) ==
    [issued EXCEPT !.ops[Len(issued.ops)].result = "rejected", !.i = @ + 1]

\* the command issued last exits non-zero: exec rejects and the catch of run() ends
\* the run
Rejected(issued) ==
    Failed([issued EXCEPT !.ops[Len(issued.ops)].result = "rejected"])

\* featureFlagErrorOutputs[name] = ...: a key keeps the place of its first assignment
SetKey(keys, name) == IF Includes(keys, name) THEN keys ELSE Append(keys, name)

\* the run r continues as newrun
Step(r, newrun) ==
    /\ runs' = [runs EXCEPT ![r] = newrun]
    /\ aborted' = (aborted \/ newrun.failed)

\* a remote call may fail on its own while the budget of such failures lasts
CanFault == faults < MaxFaults

----------------------------------------------------------------------------
(* The repository and the pull request *)

\* no function is called on its own
NoProbe == [fn |-> "none", args |-> <<>>, done |-> FALSE, result |-> <<>>]

\* the PR before its first commit, the empty backend and no run
InitPR ==
    /\ head = [f \in Files |-> BaseState(f)]
    /\ last = [f \in Files |-> "none"]
    /\ ncommits = 0
    /\ pr = "new"
    /\ pushed = FALSE
    /\ subgraphs = {}
    /\ flags = <<>>
    /\ written = <<>>
    /\ runs = [r \in RunIds |-> IdleRun]
    /\ faults = 0
    /\ nruns = 0
    /\ cfgTouched = FALSE
    /\ cfgEver = FALSE
    /\ aborted = FALSE

Init == InitPR /\ probe = NoProbe

\* a commit is pushed to the PR branch: it touches the files of T and leaves each
\* file in one of the states the function states allows it
Push(states) ==
    /\ ncommits < MaxCommits
    /\ faults = 0
    /\ pr \in {"new", "open"}
    /\ \E T \in SUBSET Files \ {{}} : \E h \in [Files -> AllStates] :
        /\ \A f \in Files : h[f] \in states[f]
        /\ \A f \in Files \ T : h[f] = head[f]
        /\ \A f \in T : h[f] # head[f] \/ head[f] = "changed"
        /\ head' = h
        /\ last' = [f \in Files |-> IF f \in T THEN CommitStatus(head[f], h[f]) ELSE "none"]
        /\ cfgTouched' = (cfgTouched \/ (pr = "open" /\ FileCfg \in T))
        /\ cfgEver' = (cfgEver \/ FileCfg \in T)
    /\ ncommits' = ncommits + 1
    /\ pushed' = (pr = "open")
    /\ UNCHANGED <<pr, subgraphs, flags, written, nruns, faults, aborted, probe>>

\* a push while no run of the action is in progress
CommitOver(states) ==
    /\ \A r \in RunIds : Resting(r)
    /\ Push(states)
    /\ runs' = [r \in RunIds |-> IdleRun]

\* a commit of a PR that keeps the manifest loadable
Commit == CommitOver([f \in Files |-> FileStates(f)])

----------------------------------------------------------------------------
(* run(): the entry point of the action *)

\* the workflow starts the action for a PR event: opened / reopened -> create,
\* synchronize (a push to the open PR) -> update, closed -> destroy.  The events of
\* one PR are served one after the other.  run() up to getInputs.
Begin(r, event, create, update, destroy) ==
    /\ nruns < MaxRuns
    /\ ncommits > 0
    /\ \A q \in RunIds : Resting(q)
    /\ r = 1
    /\ \/ event = "create" /\ pr \in {"new", "closed"} /\ pr' = "open" /\ cfgTouched' = FALSE
       \/ event = "update" /\ pr = "open" /\ pushed /\ UNCHANGED <<pr, cfgTouched>>
       \/ event = "destroy" /\ pr = "open" /\ ~pushed /\ pr' = "closed"
          /\ UNCHANGED cfgTouched
    /\ pushed' = FALSE
    /\ nruns' = nruns + 1
    /\ LET inputs == getInputs(create, update, destroy, head[FileCfg])
           run == [IdleRun EXCEPT !.selected = <<create, update, destroy>>, !.inputs = inputs]
       IN IF ~inputs.ok
          THEN Step(r, Failed(run))
          ELSE Step(r, [run EXCEPT !.actionType = inputs.actionType, !.pc = "whoami"])
    /\ UNCHANGED <<head, last, ncommits, subgraphs, flags, written, faults, cfgEver, probe>>

\* the run for a PR event while no command has failed on its own
StartWith(r, event, create, update, destroy) ==
    /\ faults = 0
    /\ Begin(r, event, create, update, destroy)

\* the run for the next event of the PR after a run in which a command failed on
\* its own: the PR is closed after a failed create or update, reopened after a
\* failed destroy
Restart(r, actionType) ==
    /\ faults > 0
    /\ Begin(r, actionType, actionType = "create", actionType = "update",
             actionType = "destroy")

\* the workflow runs the action on an event that has no pull request (a push, a
\* manual dispatch), with any values of create, update and destroy: run() calls
\* core.setFailed and returns before getInputs
StartOutsidePullRequest(r) ==
    /\ nruns < MaxRuns
    /\ faults = 0
    /\ \A q \in RunIds : Resting(q)
    /\ r = 1
    /\ nruns' = nruns + 1
    /\ \E create, update, destroy \in BOOLEAN :
          Step(r, Failed([IdleRun EXCEPT !.selected = <<create, update, destroy>>,
                                         !.pullRequest = FALSE]))
    /\ UNCHANGED <<head, last, ncommits, pr, pushed, subgraphs, flags, written, faults,
                   cfgTouched, cfgEver, probe>>

\* the workflow selects the procedure of the event
Start(r, actionType) ==
    StartWith(r, actionType, actionType = "create", actionType = "update",
              actionType = "destroy")

\* the ways wgc auth whoami fails: it exits non-zero, it writes to stderr, it
\* prints JSON that is no object (null)
WhoamiFailures == {"rejected", "stderr", "nodetails"}

\* getOrganizationDetails going on to the changed files whatever whoami printed
DetailsUnchecked(issued, outcome) ==
    [issued EXCEPT !.ops[Len(issued.ops)].result = outcome, !.pc = "classify"]

\* getOrganizationDetails and the check of its result: text on stderr is passed to
\* core.setFailed and undefined is returned, a result that is not truthy makes
\* run() call core.setFailed, a rejection reaches the catch of run(); each ends
\* the run
DetailsChecked(issued, outcome) ==
    Failed([issued EXCEPT !.ops[Len(issued.ops)].result = outcome])

\* exportApiKey and getOrganizationDetails: wgc auth whoami --json
Whoami(r) ==
    LET run == runs[r]
        issued == [run EXCEPT !.ops = Append(@, Cmd("whoami", "", ""))]
    IN
    /\ run.pc = "whoami"
    /\ \/ /\ Step(r, [issued EXCEPT !.pc = "classify"])
          /\ UNCHANGED faults
       \/ /\ CanFault
          /\ faults' = faults + 1
          /\ \E outcome \in WhoamiFailures : Step(r, DetailsChecked(issued, outcome))
    /\ UNCHANGED <<head, last, ncommits, pr, pushed, subgraphs, flags, written, nruns, cfgTouched,
                   cfgEver, probe>>

\* the comment run() posts when the manifest changed
ManifestComment == [kind |-> "manifest changed", deployed |-> <<>>, failed |-> <<>>, subs |-> <<>>]

\* run() without the check of the manifest
NoManifestGuard(actionType, n, l) == FALSE

\* the check of the manifest for every event
GuardEveryEvent(actionType, n, l) == hasCosmoConfigChangedInLastCommit(n, l)

\* if (inputs.actionType === 'update') { ... if (isCosmoConfigChanged) ...
ManifestGuard(actionType, n, l) ==
    actionType = "update" /\ hasCosmoConfigChangedInLastCommit(n, l)

\* destroy with the loop over the changed files first
SubgraphsFirst == "destroy subgraphs"

\* destroy begins with the loop over inputs.featureFlags
DestroyFirst == "destroy flags"

\* update going to the publish loop at once
PublishFirst == "update publish"

\* update begins with getRemovedGraphQLFilesInLastCommit and the loop over its result
UpdateFirst == "update removed"

\* the changed files of the PR, the manifest guard of an update, and the switch
Classify(r) ==
    LET run == runs[r]
        changedFiles == getChangedFilesFromGithubAPI(head)
        changedGraphQLFiles == getFilteredChangedFiles(changedFiles, SchemaPatterns)
        got == [run EXCEPT !.changed = changedGraphQLFiles, !.i = 1]
    IN
    /\ run.pc = "classify"
    /\ IF ManifestGuard(run.actionType, ncommits, last)
       THEN /\ runs' = [runs EXCEPT
                            ![r] = Failed([got EXCEPT !.comments = Append(@, ManifestComment)])]
            /\ UNCHANGED aborted
       ELSE Step(r, [got EXCEPT !.procedure = run.actionType,
                                !.pc = CASE run.actionType = "create" -> "create publish"
                                         [] run.actionType = "update" -> UpdateFirst
                                         [] OTHER -> DestroyFirst])
    /\ UNCHANGED <<head, last, ncommits, pr, pushed, subgraphs, flags, written, nruns, faults,
                   cfgTouched, cfgEver, probe>>

----------------------------------------------------------------------------
(* The remote resource gateway: one wgc command and what it does to Cosmo *)

SubgraphKey(ns, name) == <<ns, name>>

FlagKey(ns, name) == <<ns, name>>

\* the environment every run step leaves alone
UNCHANGED_PR ==
    UNCHANGED <<head, last, ncommits, pr, pushed, nruns, cfgTouched, cfgEver, probe>>

\* await exec.exec(`wgc feature-subgraph publish ...`) for the changed file and the
\* configured subgraph k, and the bookkeeping that follows it.  The command reads
\* the schema file: it exits non-zero when the file is absent at the PR head.
Publish(r, run, file, k, name) ==
    LET subgraph == run.inputs.subgraphs[k]
        ns == run.inputs.namespace
        routingURL == RoutingURL(subgraph.routingUrl, PrNumber)
        issued == [run EXCEPT !.ops = Append(@, PublishCmd(ns, name, subgraph.name, routingURL))]
    IN
    \/ /\ head[file] # "absent"
       /\ subgraphs' = subgraphs \cup {SubgraphKey(ns, name)}
       /\ Step(r, [issued EXCEPT !.names = Append(@, name),
                                 !.toDeploy = Append(@, OutputConfig(name, subgraph, routingURL)),
                                 !.i = @ + 1])
       /\ UNCHANGED <<flags, written, faults>>
    \/ /\ head[file] = "absent"
       /\ Step(r, Rejected(issued))
       /\ UNCHANGED <<subgraphs, flags, written, faults>>
    \/ /\ head[file] # "absent"
       /\ CanFault
       /\ faults' = faults + 1
       /\ Step(r, Rejected(issued))
       /\ UNCHANGED <<subgraphs, flags, written>>

\* await exec.exec(`wgc subgraph delete ... -f`) and the bookkeeping that follows it.
\* Deleting a subgraph that does not exist changes nothing.
DeleteSubgraph(r, run, k, name) ==
    LET subgraph == run.inputs.subgraphs[k]
        ns == run.inputs.namespace
        routingURL == RoutingURL(subgraph.routingUrl, PrNumber)
        issued == [run EXCEPT !.ops = Append(@, Cmd("subgraph delete", ns, name))]
    IN
    \/ /\ subgraphs' = subgraphs \ {SubgraphKey(ns, name)}
       /\ Step(r, [issued EXCEPT !.toDestroy = Append(@, OutputConfig(name, subgraph, routingURL)),
                                 !.i = @ + 1])
       /\ UNCHANGED <<flags, written, faults>>
    \/ /\ CanFault
       /\ faults' = faults + 1
       /\ Step(r, Rejected(issued))
       /\ UNCHANGED <<subgraphs, flags, written>>

\* the handling of the output that goes back to the flag after a failure
FlagResultAgain(run, featureFlagName, outcome) ==
    IF outcome = "success" THEN [run EXCEPT !.deployed = Append(@, featureFlagName)]
    ELSE [run EXCEPT !.errs = SetKey(@, featureFlagName), !.i = @ - 1]

\* the handling of the output with a reported failure ending the run
FlagResultFatal(run, featureFlagName, outcome) ==
    IF outcome = "success" THEN [run EXCEPT !.deployed = Append(@, featureFlagName)]
                           ELSE Failed(run)

\* the handling of the output that keeps no failure
FlagResultUnrecorded(run, featureFlagName, outcome) ==
    IF outcome = "success" THEN [run EXCEPT !.deployed = Append(@, featureFlagName)] ELSE run

\* what a run does with the output of a feature-flag create/update command
FlagResult(run, featureFlagName, outcome) ==
    CASE outcome = "stderr" -> [run EXCEPT !.errs = SetKey(@, featureFlagName)]
      [] outcome = "success" -> [run EXCEPT !.deployed = Append(@, featureFlagName)]
      [] outcome = "failure" -> [run EXCEPT !.errs = SetKey(@, featureFlagName)]
      [] OTHER -> run

\* await exec.exec(`wgc feature-flag <commandName> ... --json`) and the handling of
\* its output.  Cosmo creates a flag only under a free name and updates only an
\* existing one; otherwise it answers with a failure status.
FlagCommand(r, run, commandName, featureFlag, name, enabled, next) ==
    LET ns == run.inputs.namespace
        key == FlagKey(ns, name)
        command == FlagCmd(commandName, ns, name, featureFlag.labels, run.names, enabled)
        Issue(outcome) == [run EXCEPT !.ops = Append(@, [command EXCEPT !.result = outcome]),
                                      !.pc = next, !.i = @ + 1]
        legal == IF commandName = "create" THEN key \notin DOMAIN flags
                                           ELSE key \in DOMAIN flags
        Executed(outcome) ==
            written' = (key :> [subs |-> run.names, result |-> outcome, run |-> r]) @@ written
    IN
    \/ /\ legal
       /\ flags' = IF commandName = "create"
                   THEN (key :> [subs |-> command.subs, labels |-> command.labels,
                                 enabled |-> command.enabled]) @@ flags
                   ELSE [flags EXCEPT ![key].subs = command.subs,
                                      ![key].labels = command.labels]
       /\ Executed("success")
       /\ Step(r, FlagResult(Issue("success"), name, "success"))
       /\ UNCHANGED <<subgraphs, faults>>
    \/ /\ ~legal
       /\ Executed("failure")
       /\ Step(r, FlagResult(Issue("failure"), name, "failure"))
       /\ UNCHANGED <<subgraphs, flags, faults>>
    \/ /\ CanFault
       /\ faults' = faults + 1
       /\ \/ \E outcome \in {"failure", "stderr", "empty"} :
                /\ Executed(outcome)
                /\ Step(r, FlagResult(Issue(outcome), name, outcome))
          \/ /\ Executed("rejected")
             /\ Step(r, Failed([run EXCEPT
                                   !.ops = Append(@, [command EXCEPT !.result = "rejected"])]))
       /\ UNCHANGED <<subgraphs, flags>>

\* the report without the failure map
ReportDeployedOnly(run) ==
    [kind |-> "report", deployed |-> run.deployed, failed |-> <<>>, subs |-> run.names]

\* addComment: the rows of the deployed table of the comment body, one per entry of
\* deployedFeatureFlags; the table is left out when there are failures and nothing
\* was deployed
DeployedRows(comment) ==
    IF comment.failed # <<>> /\ comment.deployed = <<>> THEN <<>>
    ELSE [k \in 1..Len(comment.deployed) |->
            [flag |-> comment.deployed[k], subs |-> comment.subs]]

\* addComment: the rows of the failed table, one per key of featureFlagErrorOutputs;
\* the table is there only when the map has a key
FailedRows(comment) ==
    [k \in 1..Len(comment.failed) |-> [flag |-> comment.failed[k]]]

\* addComment: the report of the deployed and the failed flags
Report(run) ==
    [kind |-> "report", deployed |-> run.deployed, failed |-> run.errs, subs |-> run.names]

\* a step of a run that issues no command
Local(r, newrun) ==
    /\ Step(r, newrun)
    /\ UNCHANGED <<subgraphs, flags, written, faults>>

----------------------------------------------------------------------------
(* create *)

\* create returning at the empty list of published names before core.setOutput(...)
ReturnBeforeOutput(run) ==
    IF Len(run.names) = 0 THEN [run EXCEPT !.i = 1, !.pc = "done"]
    ELSE [run EXCEPT !.outDeploy = Output(run.toDeploy), !.i = 1, !.pc = "create flags"]

\* core.setOutput(...) and the return of create when nothing was published
AfterCreatePublish(run) ==
    LET out == [run EXCEPT !.outDeploy = Output(run.toDeploy), !.i = 1] IN
    IF Len(run.names) = 0 THEN [out EXCEPT !.pc = "done"]
                          ELSE [out EXCEPT !.pc = "create flags"]

\* one iteration of the publish loop of create, and what follows the loop
CreatePublish(r) ==
    LET run == runs[r] IN
    /\ run.pc = "create publish"
    /\ UNCHANGED_PR
    /\ IF run.i > Len(run.changed)
       THEN Local(r, AfterCreatePublish(run))
       ELSE LET changedFile == run.changed[run.i]
                k == FindSubgraph(run.inputs, changedFile)
            IN IF k = 0
               THEN Local(r, [run EXCEPT !.i = @ + 1])
               ELSE Publish(r, run, changedFile, k,
                            CreateSubgraphName(run.inputs.subgraphs[k], run.inputs, PrNumber))

\* one iteration of the flag loop of create, and the comment that follows the loop
CreateFlag(r) ==
    LET run == runs[r] IN
    /\ run.pc = "create flags"
    /\ UNCHANGED_PR
    /\ IF run.i > Len(run.inputs.featureFlags)
       THEN Local(r, [run EXCEPT !.comments = Append(@, Report(run)), !.pc = "done"])
       ELSE LET featureFlag == run.inputs.featureFlags[run.i] IN
            FlagCommand(r, run, "create", featureFlag, CreateFlagName(featureFlag, PrNumber),
                        TRUE, "create flags")

----------------------------------------------------------------------------
(* update *)

\* the revert detector
UpdateRemoved(r) ==
    LET run == runs[r] IN
    /\ run.pc = "update removed"
    /\ UNCHANGED_PR
    /\ Local(r, [run EXCEPT
                    !.removed = getRemovedGraphQLFilesInLastCommit(ncommits, last, run.changed),
                    !.pc = "update delete", !.i = 1])

\* one iteration of the loop that deletes the feature subgraphs of the removed files
UpdateDelete(r) ==
    LET run == runs[r] IN
    /\ run.pc = "update delete"
    /\ UNCHANGED_PR
    /\ IF run.i > Len(run.removed)
       THEN Local(r, [run EXCEPT !.pc = "update publish", !.i = 1])
       ELSE LET removedFile == run.removed[run.i]
                k == FindSubgraph(run.inputs, removedFile)
            IN IF k = 0
               THEN Local(r, [run EXCEPT !.i = @ + 1])
               ELSE DeleteSubgraph(r, run, k,
                        RemovedSubgraphName(run.inputs.subgraphs[k], run.inputs, PrNumber))

\* update without the return at the empty list of published names
UpdateWithoutReturn(run) ==
    [run EXCEPT !.outDeploy = Output(run.toDeploy),
                !.outDestroy = Output(run.toDestroy), !.i = 1, !.pc = "update list"]

\* core.setOutput(...) twice and the return of update when nothing was published
AfterUpdatePublish(run) ==
    LET out == [run EXCEPT !.outDeploy = Output(run.toDeploy),
                           !.outDestroy = Output(run.toDestroy), !.i = 1] IN
    IF Len(run.names) = 0 THEN [out EXCEPT !.pc = "done"]
                          ELSE [out EXCEPT !.pc = "update list"]

\* one iteration of the publish loop of update, and what follows the loop
UpdatePublish(r) ==
    LET run == runs[r] IN
    /\ run.pc = "update publish"
    /\ UNCHANGED_PR
    /\ IF run.i > Len(run.changed)
       THEN Local(r, AfterUpdatePublish(run))
       ELSE LET changedFile == run.changed[run.i]
                k == FindSubgraph(run.inputs, changedFile)
            IN IF k = 0
               THEN Local(r, [run EXCEPT !.i = @ + 1])
               ELSE Publish(r, run, changedFile, k,
                            UpdateSubgraphName(run.inputs.subgraphs[k], run.inputs, PrNumber))

\* the names `wgc feature-flag list -n <namespace> --json` prints
ListFlags(ns) ==
    [printed |-> TRUE, names |-> {key[2] : key \in {q \in DOMAIN flags : q[1] = ns}}]

\* the command name left at its initial value
AlwaysUpdate(listOutput, featureFlagName) == "update"

\* let commandName = 'update'; ... if (!featureFlagExists) commandName = 'create'
ChooseCommand(listOutput, featureFlagName) ==
    IF listOutput.printed /\ featureFlagName \notin listOutput.names THEN "create" ELSE "update"

\* the head of one iteration of the flag loop of update: the list command and the
\* choice between create and update; after the loop, the comment
UpdateList(r) ==
    LET run == runs[r] IN
    /\ run.pc = "update list"
    /\ UNCHANGED_PR
    /\ IF run.i > Len(run.inputs.featureFlags)
       THEN Local(r, [run EXCEPT !.comments = Append(@, Report(run)), !.pc = "done"])
       ELSE LET featureFlag == run.inputs.featureFlags[run.i]
                featureFlagName == UpdateFlagName(featureFlag, PrNumber)
                listCommand == Cmd("feature-flag list", run.inputs.namespace, "")
                issued == [run EXCEPT !.ops = Append(@, listCommand)]
                Chosen(listOutput) ==
                    [run EXCEPT !.ops = Append(@, [listCommand EXCEPT !.out = listOutput]),
                                   !.listed = listOutput,
                                   !.commandName = ChooseCommand(listOutput, featureFlagName),
                                   !.pc = "update flag"]
            IN \/ Local(r, Chosen(ListFlags(run.inputs.namespace)))
               \/ /\ CanFault
                  /\ faults' = faults + 1
                  /\ \/ Step(r, Chosen(NoList))
                     \/ Step(r, Rejected(issued))
                  /\ UNCHANGED <<subgraphs, flags, written>>

\* the rest of the iteration: the create or update command and its output
UpdateFlag(r) ==
    LET run == runs[r]
        featureFlag == run.inputs.featureFlags[run.i]
    IN
    /\ run.pc = "update flag"
    /\ UNCHANGED_PR
    /\ FlagCommand(r, run, run.commandName, featureFlag, UpdateFlagName(featureFlag, PrNumber),
                   FALSE, "update list")

----------------------------------------------------------------------------
(* destroy *)

\* one iteration of the loop that deletes the feature flags
DestroyFlag(r) ==
    LET run == runs[r] IN
    /\ run.pc = "destroy flags"
    /\ UNCHANGED_PR
    /\ IF run.i > Len(run.inputs.featureFlags)
       THEN Local(r, [run EXCEPT !.pc = "destroy subgraphs", !.i = 1])
       ELSE LET ns == run.inputs.namespace
                name == DestroyFlagName(run.inputs.featureFlags[run.i], PrNumber)
                issued == [run EXCEPT !.ops = Append(@, Cmd("feature-flag delete", ns, name))]
            IN \/ /\ flags' = [key \in DOMAIN flags \ {FlagKey(ns, name)} |-> flags[key]]
                  /\ written' = [key \in DOMAIN written \ {FlagKey(ns, name)} |-> written[key]]
                  /\ Step(r, [issued EXCEPT !.i = @ + 1])
                  /\ UNCHANGED <<subgraphs, faults>>
               \/ /\ CanFault
                  /\ faults' = faults + 1
                  /\ Step(r, Rejected(issued))
                  /\ UNCHANGED <<subgraphs, flags, written>>

\* one iteration of the loop that deletes the feature subgraphs, and the output
DestroySubgraph(r) ==
    LET run == runs[r] IN
    /\ run.pc = "destroy subgraphs"
    /\ UNCHANGED_PR
    /\ IF run.i > Len(run.changed)
       THEN Local(r, [run EXCEPT !.outDestroy = Output(run.toDestroy), !.pc = "done"])
       ELSE LET changedFile == run.changed[run.i]
                k == FindSubgraph(run.inputs, changedFile)
            IN IF k = 0
               THEN Local(r, [run EXCEPT !.i = @ + 1])
               ELSE DeleteSubgraph(r, run, k,
                        DestroySubgraphName(run.inputs.subgraphs[k], run.inputs, PrNumber))

----------------------------------------------------------------------------

Next ==
    \/ Commit
    \/ \E r \in RunIds : \E actionType \in {"create", "update", "destroy"} : Start(r, actionType)
    \/ \E r \in RunIds : Whoami(r)
    \/ \E r \in RunIds : Classify(r)
    \/ \E r \in RunIds : CreatePublish(r)
    \/ \E r \in RunIds : CreateFlag(r)
    \/ \E r \in RunIds : UpdateRemoved(r)
    \/ \E r \in RunIds : UpdateDelete(r)
    \/ \E r \in RunIds : UpdatePublish(r)
    \/ \E r \in RunIds : UpdateList(r)
    \/ \E r \in RunIds : UpdateFlag(r)
    \/ \E r \in RunIds : DestroyFlag(r)
    \/ \E r \in RunIds : DestroySubgraph(r)

Spec == Init /\ [][Next]_vars

----------------------------------------------------------------------------
(* The action under any configuration of the workflow and any manifest *)

\* the states of the files when the PR may also remove the manifest or empty its
\* lists; one schema file changes
ManifestStates(f) ==
    CASE f = FileCfg -> {"base", "changed", "absent", "noflags", "nosubgraphs"}
      [] f = FileA -> {"base", "changed"}
      [] OTHER -> {"absent"}

CommitAny == CommitOver([f \in Files |-> ManifestStates(f)])

\* the workflow starts the action for an event with any values of the inputs
\* create, update and destroy
StartAny(r) ==
    \E event \in {"create", "update", "destroy"} : \E create, update, destroy \in BOOLEAN :
        StartWith(r, event, create, update, destroy)

NextInputs ==
    \/ CommitAny
    \/ \E r \in RunIds : StartAny(r)
    \/ \E r \in RunIds : Whoami(r)
    \/ \E r \in RunIds : Classify(r)
    \/ \E r \in RunIds : CreatePublish(r)
    \/ \E r \in RunIds : CreateFlag(r)
    \/ \E r \in RunIds : UpdateRemoved(r)
    \/ \E r \in RunIds : UpdateDelete(r)
    \/ \E r \in RunIds : UpdatePublish(r)
    \/ \E r \in RunIds : UpdateList(r)
    \/ \E r \in RunIds : UpdateFlag(r)
    \/ \E r \in RunIds : DestroyFlag(r)
    \/ \E r \in RunIds : DestroySubgraph(r)

SpecInputs == Init /\ [][NextInputs]_vars

----------------------------------------------------------------------------
(* The action on any event of the workflow *)

NextEvents ==
    \/ Commit
    \/ \E r \in RunIds : \E actionType \in {"create", "update", "destroy"} : Start(r, actionType)
    \/ \E r \in RunIds : StartOutsidePullRequest(r)
    \/ \E r \in RunIds : \E actionType \in {"create", "destroy"} : Restart(r, actionType)
    \/ \E r \in RunIds : Whoami(r)
    \/ \E r \in RunIds : Classify(r)
    \/ \E r \in RunIds : CreatePublish(r)
    \/ \E r \in RunIds : CreateFlag(r)
    \/ \E r \in RunIds : UpdateRemoved(r)
    \/ \E r \in RunIds : UpdateDelete(r)
    \/ \E r \in RunIds : UpdatePublish(r)
    \/ \E r \in RunIds : UpdateList(r)
    \/ \E r \in RunIds : UpdateFlag(r)
    \/ \E r \in RunIds : DestroyFlag(r)
    \/ \E r \in RunIds : DestroySubgraph(r)

SpecEvents == Init /\ [][NextEvents]_vars

----------------------------------------------------------------------------
(* Vocabulary of the properties *)

\* the derived feature-subgraph name "{subgraphName}-{namespace}-{prNumber}"
DerivedSubgraphName(subgraphName, namespace, prNumber) ==
    subgraphName \o "-" \o namespace \o "-" \o ToString(prNumber)

\* the derived feature-flag name "{flagName}-{prNumber}"
DerivedFlagName(flagName, prNumber) == flagName \o "-" \o ToString(prNumber)

\* how many times the run's log holds the command op for the name in the namespace
Count(ops, op, ns, name) ==
    Cardinality({j \in 1..Len(ops) : ops[j].op = op /\ ops[j].ns = ns /\ ops[j].name = name})

MutatingOps ==
    {"publish", "subgraph delete", "feature-flag create", "feature-flag update",
     "feature-flag delete"}

FlagOps ==
    {"feature-flag list", "feature-flag create", "feature-flag update", "feature-flag delete"}

Issued(ops, kinds) == {j \in 1..Len(ops) : ops[j].op \in kinds}

\* the file is in the PR's cumulative changed-file list
InDiff(f) == DiffStatus(f, head) # "none"

IsSchemaFile(f) == f.ext \in {"graphql", "gql", "graphqls"}

\* the configured subgraphs of the inputs whose schema path the file resolves to
SubgraphsOf(inputs, f) ==
    {k \in 1..Len(inputs.subgraphs) : inputs.subgraphs[k].schemaPath = Resolve(Cwd, f)}

\* the run r is an update run, and the last commit modified the schema file f, which
\* is not in the cumulative changed-file list
Reverted(r, f) ==
    /\ runs[r].actionType = "update"
    /\ runs[r].inputs.ok
    /\ IsSchemaFile(f)
    /\ last[f] = "modified"
    /\ ~InDiff(f)

----------------------------------------------------------------------------
(* C1 *)

----------------------------------------------------------------------------
(* C2, C3, C4 *)

\* the derived names of the feature subgraphs of the files of the cumulative diff
\* that are schemas of configured subgraphs
DiffNames(inputs) ==
    {DerivedSubgraphName(inputs.subgraphs[k].name, inputs.namespace, PrNumber) :
        k \in UNION {SubgraphsOf(inputs, f) : f \in {g \in Files : InDiff(g)}}}

Range(seq) == {seq[j] : j \in 1..Len(seq)}

\* the runs so far all ran to their end, no remote call failed, and no commit of the
\* PR changed the manifest
Undisturbed == faults = 0 /\ ~aborted /\ ~cfgEver

\* C2: after the create and update runs of a PR (manifest unchanged, every run
\* completed), a destroy run that completes leaves no feature flag and no feature
\* subgraph behind.  (Only runs of this PR write to the backend, which starts empty.)
C2_DestroyCleansUp ==
    \A r \in RunIds :
        runs[r].actionType = "destroy" /\ runs[r].pc = "done" /\ Undisturbed =>
            subgraphs = {} /\ DOMAIN flags = {}

\* C3: after a completed update run every existing flag lists exactly the derived
\* names of the schema files of the cumulative diff that match configured subgraphs;
\* stated here by the consequence the claim draws from it: no existing flag is left
\* listing a feature subgraph that the run deleted.
C3_FlagsMatchDiff ==
    \A r \in RunIds :
        runs[r].actionType = "update" /\ runs[r].pc = "done" /\ Undisturbed =>
            \A key \in DOMAIN flags : \A j \in Issued(runs[r].ops, {"subgraph delete"}) :
                key[1] = runs[r].ops[j].ns => runs[r].ops[j].name \notin Range(flags[key].subs)

\* C4: after a completed update run no feature subgraph exists for a file outside
\* the cumulative diff.
C4_NoOrphanAfterUpdate ==
    \A r \in RunIds :
        runs[r].actionType = "update" /\ runs[r].pc = "done" /\ Undisturbed =>
            \A key \in subgraphs :
                key[1] = runs[r].inputs.namespace /\ key[2] \in DiffNames(runs[r].inputs)

----------------------------------------------------------------------------
(* C5 *)

\* the derived names of the feature subgraphs of the configured subgraphs
ConfiguredNames(inputs) ==
    {DerivedSubgraphName(inputs.subgraphs[k].name, inputs.namespace, PrNumber) :
        k \in 1..Len(inputs.subgraphs)}

\* C5: whichever of create, update and destroy issues it, a publish or a subgraph
\* delete targets the name "{subgraphName}-{namespace}-{prNumber}" of a configured
\* subgraph, a publish that of the subgraph it names as its base, and every record
\* of the two outputs pairs a base subgraph with that name; no run targets a feature
\* subgraph under another name.
C5_DeterministicNaming ==
    \A r \in RunIds :
        LET run == runs[r] IN
        /\ \A j \in Issued(run.ops, {"publish", "subgraph delete"}) :
              /\ run.ops[j].ns = run.inputs.namespace
              /\ run.ops[j].name \in ConfiguredNames(run.inputs)
              /\ run.ops[j].op = "publish" =>
                    run.ops[j].name =
                        DerivedSubgraphName(run.ops[j].base, run.inputs.namespace, PrNumber)
        /\ \A j \in 1..Len(run.toDeploy) :
              run.toDeploy[j].featureSubgraphName =
                  DerivedSubgraphName(run.toDeploy[j].baseSubgraphName,
                                      run.inputs.namespace, PrNumber)
        /\ \A j \in 1..Len(run.toDestroy) :
              run.toDestroy[j].featureSubgraphName =
                  DerivedSubgraphName(run.toDestroy[j].baseSubgraphName,
                                      run.inputs.namespace, PrNumber)

\* an update run that issued a revert delete for one subgraph and a publish for
\* another and reported both
C5_Witness ==
    \E r \in RunIds :
        /\ runs[r].actionType = "update" /\ runs[r].pc = "done" /\ ~runs[r].failed
        /\ Len(runs[r].toDeploy) > 0 /\ Len(runs[r].toDestroy) > 0
        /\ Issued(runs[r].ops, {"publish"}) # {}
        /\ Issued(runs[r].ops, {"subgraph delete"}) # {}

----------------------------------------------------------------------------
(* C6 *)

\* no file of the run's changed-file list resolves to the schema path of a
\* configured subgraph
NoMatch(run) ==
    \A j \in 1..Len(run.changed) : FindSubgraph(run.inputs, run.changed[j]) = 0

\* C6 as stated: in a run of any lifecycle event, create, update or destroy, in
\* which no changed file resolves to a configured subgraph's schema path, no
\* feature-flag operation is issued.  It fails for destroy, which deletes the
\* configured flags before it looks at the changed files.
C6_AsStated ==
    \A r \in RunIds :
        runs[r].inputs.ok /\ NoMatch(runs[r]) /\ faults = 0 =>
            Issued(runs[r].ops, FlagOps) = {}

\* C6, amended: in a create or update run in which no changed file resolves to a
\* configured subgraph's schema path no feature-flag operation is issued; a destroy
\* run that ends without failure has issued one feature-flag delete for every
\* configured flag, whatever the changed files are.
C6_ShortCircuit ==
    \A r \in RunIds :
        LET run == runs[r] IN
        /\ run.actionType \in {"create", "update"} /\ run.inputs.ok /\ NoMatch(run) =>
              Issued(run.ops, FlagOps) = {}
        /\ run.actionType = "destroy" /\ run.pc = "done" /\ ~run.failed =>
              \A k \in 1..Len(run.inputs.featureFlags) :
                  Count(run.ops, "feature-flag delete", run.inputs.namespace,
                        DerivedFlagName(run.inputs.featureFlags[k].name, PrNumber)) = 1

\* an update run that, with flags existing remotely, deleted the feature subgraph of
\* a reverted file, found no changed file of a configured subgraph, and ended
C6_Witness ==
    \E r \in RunIds :
        /\ runs[r].actionType = "update" /\ runs[r].pc = "done" /\ ~runs[r].failed
        /\ NoMatch(runs[r])
        /\ Issued(runs[r].ops, {"subgraph delete"}) # {}
        /\ DOMAIN flags # {}

----------------------------------------------------------------------------
(* C7 *)

\* the positions of the run's log at which a create or update command for the flag
\* name follows a list command, and the command the list result calls for
FlagCommandsFor(run, name) ==
    {j \in 2..Len(run.ops) :
        /\ run.ops[j].op \in {"feature-flag create", "feature-flag update"}
        /\ run.ops[j].name = name
        /\ run.ops[j - 1].op = "feature-flag list"}

CalledFor(listOutput, name) ==
    IF name \notin listOutput.names THEN "feature-flag create" ELSE "feature-flag update"

----------------------------------------------------------------------------
(* C8 *)

\* C8: an update run for a push whose latest commit has the manifest file in its
\* changed-file set issues no publish, no subgraph delete and no feature-flag
\* create, update or delete, and ends marked failed.
C8_ManifestGuard ==
    \A r \in RunIds :
        runs[r].actionType = "update" /\ last[FileCfg] # "none" =>
            /\ Issued(runs[r].ops, MutatingOps) = {}
            /\ runs[r].pc \in {"whoami", "classify", "done"}
            /\ runs[r].pc = "done" => runs[r].failed

\* an update run that the guard stopped, with the comment posted, while feature
\* subgraphs and flags of the PR exist and a schema file changed in the same commit
C8_Witness ==
    \E r \in RunIds :
        /\ runs[r].actionType = "update" /\ last[FileCfg] # "none"
        /\ runs[r].pc = "done" /\ runs[r].failed
        /\ runs[r].comments = <<ManifestComment>>
        /\ faults = 0
        /\ subgraphs # {} /\ DOMAIN flags # {}
        /\ \E f \in {FileA, FileB} : last[f] # "none"

----------------------------------------------------------------------------
(* C9 *)

\* C9: once a commit pushed to the open PR has changed the manifest, every update
\* run until the PR is closed and reopened issues no remote mutation, the run for a
\* later commit that leaves the manifest alone included.  (cfgTouched is set by such
\* a commit and cleared by the create run of the reopened PR.)  Stated for the
\* histories in which no command was rejected and no run ended failed for another
\* reason than a changed manifest.
C9_ImmutableForLifetime ==
    \A r \in RunIds :
        runs[r].actionType = "update" /\ cfgTouched /\ faults = 0 /\ ~aborted =>
            Issued(runs[r].ops, MutatingOps) = {}

----------------------------------------------------------------------------
(* C10 *)

\* the derived names of the configured feature flags
ConfiguredFlagNames(inputs) ==
    {DerivedFlagName(inputs.featureFlags[k].name, PrNumber) :
        k \in 1..Len(inputs.featureFlags)}

\* C10: when the create run of a reopened PR has completed, after the destroy run
\* of the close, the backend holds for the PR only resources derived from the
\* manifest the create run read: every feature subgraph and every flag is in that
\* manifest's namespace under a name derived from it.  (A create run that is not the
\* first run of the PR is the run of a reopening; the backend starts empty.)  Stated
\* for the histories in which no command was rejected and the only runs that ended
\* failed are update runs refused for the changed manifest.
C10_SafeCycle ==
    \A r \in RunIds :
        LET run == runs[r] IN
        run.actionType = "create" /\ run.pc = "done" /\ ~run.failed /\ nruns >= 2
                /\ faults = 0 /\ ~aborted =>
            /\ \A key \in subgraphs :
                  key[1] = run.inputs.namespace /\ key[2] \in ConfiguredNames(run.inputs)
            /\ \A key \in DOMAIN flags :
                  key[1] = run.inputs.namespace /\ key[2] \in ConfiguredFlagNames(run.inputs)

----------------------------------------------------------------------------
(* C11 *)

\* C11: a destroy run issues subgraph delete at most once for a feature-subgraph
\* name, also when GitHub reports the schema file as renamed, and only for the
\* derived names of the configured subgraphs whose schema files are in the PR's
\* changed-file list.  Stated for the histories in which no command was rejected,
\* no run ended failed and the manifest is unchanged.
C11_DeleteOncePerName ==
    \A r \in RunIds :
        LET run == runs[r] IN
        run.actionType = "destroy" /\ Undisturbed =>
            \A j \in Issued(run.ops, {"subgraph delete"}) :
                /\ run.ops[j].name \in DiffNames(run.inputs)
                /\ Count(run.ops, "subgraph delete", run.ops[j].ns, run.ops[j].name) = 1

----------------------------------------------------------------------------
(* C12 *)

\* C12: in a destroy run every subgraph delete comes after a feature-flag delete
\* for every configured flag's derived name, no feature-flag delete comes after a
\* subgraph delete, the flags are gone from the backend when the first subgraph
\* delete is issued, and a run that ends without failure has issued the delete of
\* every configured flag.
C12_FlagsBeforeSubgraphs ==
    \A r \in RunIds :
        LET run == runs[r]
            ns == run.inputs.namespace
            flagDeletes == Issued(run.ops, {"feature-flag delete"})
            subgraphDeletes == Issued(run.ops, {"subgraph delete"})
            AllFlagsBefore(j) ==
                \A k \in 1..Len(run.inputs.featureFlags) :
                    \E i \in flagDeletes :
                        /\ i < j
                        /\ run.ops[i].ns = ns
                        /\ run.ops[i].name =
                               DerivedFlagName(run.inputs.featureFlags[k].name, PrNumber)
        IN
        run.actionType = "destroy" =>
            /\ \A j \in subgraphDeletes :
                  /\ AllFlagsBefore(j)
                  /\ \A i \in flagDeletes : i < j
            /\ subgraphDeletes # {} =>
                  \A k \in 1..Len(run.inputs.featureFlags) :
                      FlagKey(ns, DerivedFlagName(run.inputs.featureFlags[k].name, PrNumber))
                          \notin DOMAIN flags
            /\ run.pc = "done" /\ ~run.failed => AllFlagsBefore(Len(run.ops) + 1)

\* a destroy run that ended without failure after the deletes of the flags and of
\* at least one feature subgraph
C12_Witness ==
    \E r \in RunIds :
        /\ runs[r].actionType = "destroy" /\ runs[r].pc = "done" /\ ~runs[r].failed
        /\ Cardinality(Issued(runs[r].ops, {"feature-flag delete"})) >= 2
        /\ Issued(runs[r].ops, {"subgraph delete"}) # {}

----------------------------------------------------------------------------
(* C13 *)

\* the feature-subgraph names of the publish commands of a log, in order
PublishedNames(ops) ==
    LET publishes == SelectSeq(ops, LAMBDA o : o.op = "publish")
    IN [j \in 1..Len(publishes) |-> publishes[j].name]

\* a changed file of the run resolves to the schema path of a configured subgraph
SomeMatch(run) ==
    \E j \in 1..Len(run.changed) : FindSubgraph(run.inputs, run.changed[j]) # 0

----------------------------------------------------------------------------
(* C14 *)

\* the flag create and update commands of the log
FlagWrites(ops) == Issued(ops, {"feature-flag create", "feature-flag update"})

\* every configured flag got a create or update command and the report is posted
AllFlagsServed(run) ==
    /\ \A k \in 1..Len(run.inputs.featureFlags) :
          \E j \in FlagWrites(run.ops) :
              run.ops[j].name = DerivedFlagName(run.inputs.featureFlags[k].name, PrNumber)
    /\ run.comments = <<Report(run)>>

----------------------------------------------------------------------------
(* C15 *)

\* how many of the inputs create, update and destroy the run was started with are true
SelectedCount(run) == Cardinality({k \in 1..3 : run.selected[k]})

\* the procedure the inputs select when exactly one is true
SelectedProcedure(run) ==
    IF run.selected[1] THEN "create" ELSE IF run.selected[2] THEN "update" ELSE "destroy"

\* C15 as stated: a run started with none or more than one of the inputs true ends
\* marked failed with no remote call; any other run executes exactly one of the
\* procedures.  The second half fails for a run that a later check stops: the
\* manifest is missing or empty, or the manifest guard refuses the update.
C15_AsStated ==
    \A r \in RunIds :
        LET run == runs[r] IN
        run.pc = "done" /\ faults = 0 =>
            IF SelectedCount(run) # 1
            THEN run.failed /\ run.ops = <<>>
            ELSE run.procedure = SelectedProcedure(run)

\* C15, amended: a run started with none or more than one of the inputs true ends
\* marked failed without a wgc command, a changed-file query or a procedure; any
\* other run executes no procedure but the selected one, and has executed it when
\* it ends without failure.
C15_Selection ==
    \A r \in RunIds :
        LET run == runs[r] IN
        run.pc # "idle" =>
            IF SelectedCount(run) # 1
            THEN /\ run.pc = "done" /\ run.failed
                 /\ run.ops = <<>> /\ run.changed = <<>> /\ run.procedure = "none"
            ELSE /\ run.procedure \in {"none", SelectedProcedure(run)}
                 /\ run.pc \notin {"whoami", "classify", "done"} =>
                       run.procedure = SelectedProcedure(run)
                 /\ run.procedure = "create" =>
                       run.pc \in {"create publish", "create flags", "done"}
                 /\ run.procedure = "update" =>
                       run.pc \in {"update removed", "update delete", "update publish",
                                   "update list", "update flag", "done"}
                 /\ run.procedure = "destroy" =>
                       run.pc \in {"destroy flags", "destroy subgraphs", "done"}
                 /\ run.pc = "done" /\ ~run.failed =>
                       run.procedure = SelectedProcedure(run)

\* a run started with two inputs true while resources of the PR exist: it ended
\* marked failed and issued nothing
C15_Witness ==
    \E r \in RunIds :
        /\ SelectedCount(runs[r]) = 2
        /\ runs[r].pc = "done" /\ runs[r].failed /\ runs[r].ops = <<>>
        /\ subgraphs # {} /\ DOMAIN flags # {}

----------------------------------------------------------------------------
(* C16 *)

\* the manifest file at the PR head is missing, or declares no feature flag, or
\* declares no subgraph
ManifestUnusable == head[FileCfg] \in {"absent", "noflags", "nosubgraphs"}

\* C16: a run started while the manifest file does not exist or declares zero
\* feature flags or zero subgraphs ends marked failed before its first remote
\* operation: no wgc command, no changed-file query, no procedure.
C16_FailFast ==
    \A r \in RunIds :
        LET run == runs[r] IN
        run.pc # "idle" /\ ManifestUnusable =>
            /\ run.pc = "done" /\ run.failed
            /\ run.ops = <<>> /\ run.changed = <<>> /\ run.procedure = "none"
            /\ run.comments = <<>>

\* a run with one input selected that ended so for a manifest without subgraphs,
\* while resources of the PR exist
C16_Witness ==
    \E r \in RunIds :
        /\ head[FileCfg] = "nosubgraphs"
        /\ SelectedCount(runs[r]) = 1
        /\ runs[r].pc = "done" /\ runs[r].failed /\ runs[r].ops = <<>>
        /\ subgraphs # {} /\ DOMAIN flags # {}

----------------------------------------------------------------------------
(* Two update runs of one PR at the same time, and an update run started again *)

\* the states of the files in a PR that edits, adds and removes schema files and
\* edits the manifest
EditStates(f) ==
    CASE f = FileB -> {"absent", "changed"}
      [] OTHER -> {"base", "changed"}

CommitEdit == CommitOver([f \in Files |-> EditStates(f)])

\* a push to the branch of the PR while its update run is in progress
PushDuring ==
    /\ runs[1].actionType = "update"
    /\ ~Resting(1)
    /\ runs[2].pc = "idle"
    /\ Push([f \in Files |-> EditStates(f)])
    /\ UNCHANGED runs

\* a second run() of the update procedure for the PR, started while the first is in
\* progress (a further synchronize event) or after it ended (the workflow run is
\* started again); rerun records that nothing was pushed since the first ended
StartBeside(r) ==
    /\ r = 2
    /\ nruns < MaxRuns
    /\ faults = 0
    /\ pr = "open"
    /\ runs[1].actionType = "update"
    /\ runs[1].pc # "idle"
    /\ runs[r].pc = "idle"
    /\ pushed' = FALSE
    /\ nruns' = nruns + 1
    /\ LET inputs == getInputs(FALSE, TRUE, FALSE, head[FileCfg])
           run == [IdleRun EXCEPT !.selected = <<FALSE, TRUE, FALSE>>, !.inputs = inputs,
                                  !.rerun = (runs[1].pc = "done" /\ ~pushed)]
       IN IF ~inputs.ok
          THEN Step(r, Failed(run))
          ELSE Step(r, [run EXCEPT !.actionType = inputs.actionType, !.pc = "whoami"])
    /\ UNCHANGED <<head, last, ncommits, pr, subgraphs, flags, written, faults,
                   cfgTouched, cfgEver, probe>>

NextConcurrent ==
    \/ CommitEdit
    \/ PushDuring
    \/ \E r \in RunIds : \E actionType \in {"create", "update"} : Start(r, actionType)
    \/ \E r \in RunIds : StartBeside(r)
    \/ \E r \in RunIds : Whoami(r)
    \/ \E r \in RunIds : Classify(r)
    \/ \E r \in RunIds : CreatePublish(r)
    \/ \E r \in RunIds : CreateFlag(r)
    \/ \E r \in RunIds : UpdateRemoved(r)
    \/ \E r \in RunIds : UpdateDelete(r)
    \/ \E r \in RunIds : UpdatePublish(r)
    \/ \E r \in RunIds : UpdateList(r)
    \/ \E r \in RunIds : UpdateFlag(r)

SpecConcurrent == Init /\ [][NextConcurrent]_vars

----------------------------------------------------------------------------
(* C17: two update runs of one PR that interleave *)

\* both runs of the update procedure ran to their end and no remote call failed on
\* its own
BothUpdated ==
    /\ \A r \in RunIds : runs[r].actionType = "update" /\ runs[r].pc = "done"
    /\ faults = 0

\* the run beside run r
Other(r) == 3 - r

\* the flags for which the create or update executed last was issued by one of the
\* two runs
WrittenByThese ==
    {key \in DOMAIN written :
        LET ops == runs[written[key].run].ops IN
        \E j \in 1..Len(ops) :
            /\ ops[j].op \in {"feature-flag create", "feature-flag update"}
            /\ FlagKey(ops[j].ns, ops[j].name) = key}

----------------------------------------------------------------------------
(* C18: the update run started again *)

\* run 2 is the update run of run 1 started again: run 1 ran to its end without
\* failure, nothing was pushed since, and no remote call has failed on its own
Repeating ==
    /\ runs[2].rerun
    /\ ~runs[1].failed
    /\ faults = 0

\* C18: when an update run has completed with every remote operation succeeding and
\* is executed again with the manifest, the cumulative diff and the latest commit
\* unchanged, no step of the second execution changes the backend's set of feature
\* subgraphs or any flag's membership, labels or enabled state: the backend stays
\* as the first execution left it.
C18_RerunConverges ==
    [][Repeating /\ faults' = 0 /\ runs'[2].rerun =>
           subgraphs' = subgraphs /\ flags' = flags]_vars

\* the second execution completed after issuing a subgraph delete, a publish and
\* a feature-flag update
C18_Witness ==
    /\ Repeating
    /\ runs[2].pc = "done"
    /\ ~runs[2].failed
    /\ \A op \in {"subgraph delete", "publish", "feature-flag update"} :
        \E j \in 1..Len(runs[2].ops) : runs[2].ops[j].op = op
    /\ runs[2].ops = runs[1].ops

----------------------------------------------------------------------------
(* C19 *)

\* numbers of other PRs, among them numbers that share digits with PrNumber
OtherPrNumbers == {4, 2, 41, 43, 142, 420}

\* the names of the feature subgraphs and flags the manifest derives for PR p
DerivedNames(inputs, p) ==
    {DerivedSubgraphName(inputs.subgraphs[k].name, inputs.namespace, p) :
        k \in 1..Len(inputs.subgraphs)}
    \cup {DerivedFlagName(inputs.featureFlags[k].name, p) : k \in 1..Len(inputs.featureFlags)}

\* the inputs read from the manifests the PR may hold
LoadableInputs == {getInputs(TRUE, FALSE, FALSE, cfgState) : cfgState \in {"base", "changed"}}

\* the names a loadable manifest derives for another PR number
ForeignNames ==
    UNION {DerivedNames(inputs, q) : inputs \in LoadableInputs, q \in OtherPrNumbers}

\* C19: every publish, subgraph delete and feature-flag create, update or delete a
\* run for PR p issues targets, in the manifest's namespace, a name "<prefix>-p"
\* the manifest derives for p, and never a name a loadable manifest derives for
\* another PR number; the backend, written by the runs of PR p only, holds no
\* other name.
C19_PrIsolation ==
    /\ \A r \in RunIds :
        LET run == runs[r] IN
        \A j \in Issued(run.ops, MutatingOps) :
            /\ run.ops[j].ns = run.inputs.namespace
            /\ run.ops[j].name \in DerivedNames(run.inputs, PrNumber)
            /\ run.ops[j].name \notin ForeignNames
    /\ \A key \in subgraphs \cup DOMAIN flags :
          \E inputs \in LoadableInputs :
              key[1] = inputs.namespace /\ key[2] \in DerivedNames(inputs, PrNumber)

\* a destroy run that deleted the flags and the feature subgraphs of the PR and
\* left the backend empty
C19_Witness ==
    \E r \in RunIds :
        /\ runs[r].actionType = "destroy" /\ runs[r].pc = "done" /\ ~runs[r].failed
        /\ Issued(runs[r].ops, {"feature-flag delete"}) # {}
        /\ Issued(runs[r].ops, {"subgraph delete"}) # {}
        /\ subgraphs = {} /\ DOMAIN flags = {}
        /\ Undisturbed

----------------------------------------------------------------------------
(* C20 *)

\* the derived names of the configured flags, in the order of the manifest
FlagNamesOf(inputs) ==
    [k \in 1..Len(inputs.featureFlags) |->
        DerivedFlagName(inputs.featureFlags[k].name, PrNumber)]

\* the names the commands of the given kinds target, in the order of the log
TargetsOf(ops, kinds) ==
    LET Hit(command) == command.op \in kinds
        hits == SelectSeq(ops, Hit)
    IN [k \in 1..Len(hits) |-> hits[k].name]

IsPrefix(s, t) == Len(s) <= Len(t) /\ \A k \in 1..Len(s) : s[k] = t[k]

\* C20: the k-th feature-flag create of a create run, the k-th feature-flag create
\* or update of an update run and the k-th feature-flag delete of a destroy run all
\* target "{flagName}-{prNumber}" of the k-th configured flag, and an update run
\* chooses between create and update by looking that same string up in the list
\* result.
C20_DeterministicFlagNaming ==
    \A r \in RunIds :
        LET run == runs[r] IN
        IF ~run.inputs.ok THEN Issued(run.ops, FlagOps) = {}
        ELSE
        LET names == FlagNamesOf(run.inputs)
            writes == TargetsOf(run.ops, {"feature-flag create", "feature-flag update"})
        IN
        /\ IsPrefix(writes, names)
        /\ IsPrefix(TargetsOf(run.ops, {"feature-flag delete"}), names)
        /\ run.pc = "update flag" /\ run.listed.printed =>
              (run.commandName = "create" <=> names[Len(writes) + 1] \notin run.listed.names)
        /\ run.actionType = "update" =>
              \A j \in FlagWrites(run.ops) :
                  run.ops[j - 1].out.printed =>
                      (run.ops[j].op = "feature-flag create" <=>
                          names[Cardinality({i \in FlagWrites(run.ops) : i <= j})]
                              \notin run.ops[j - 1].out.names)

\* the third run of the PR, a destroy run after a create and an update run, deleted
\* every configured flag under the name the earlier runs wrote it
C20_Witness ==
    \E r \in RunIds :
        /\ runs[r].actionType = "destroy" /\ runs[r].pc = "done" /\ ~runs[r].failed
        /\ nruns = 3
        /\ Undisturbed
        /\ TargetsOf(runs[r].ops, {"feature-flag delete"}) = FlagNamesOf(runs[r].inputs)
        /\ Len(runs[r].toDestroy) > 0
        /\ DOMAIN flags = {}

----------------------------------------------------------------------------
(* Functions of the action called on their own, on arguments the runs of   *)
(* the model do not produce                                                 *)

\* everything but the call
prvars == <<head, last, ncommits, pr, pushed, subgraphs, flags, nruns, runs, faults,
            cfgTouched, cfgEver, written, aborted>>

Call(fn, args) == [fn |-> fn, args |-> args, done |-> FALSE, result |-> <<>>]

\* the call returns
Return(result) ==
    /\ ~probe.done
    /\ probe' = [probe EXCEPT !.done = TRUE, !.result = result]
    /\ UNCHANGED prvars

\* working directories of the runner
Cwds == {<<"work">>, <<"home", "runner">>}

\* places of the manifest: .github/cosmo.yaml, cosmo.yaml, config/cosmo.yaml
ConfigPaths ==
    {FileCfg, [FileCfg EXCEPT !.dir = <<>>], [FileCfg EXCEPT !.dir = <<"config">>]}

\* schema_path as the manifest may write it: schemas/products.graphql, with "./",
\* with a doubled slash, from the directory of the manifest, through the parent of
\* the working directory, and absolute
SchemaPaths ==
    {FileA,
     [FileA EXCEPT !.dir = <<".", "schemas">>],
     [FileA EXCEPT !.dir = <<"schemas", "">>],
     [FileA EXCEPT !.dir = <<"..", "schemas">>],
     [FileA EXCEPT !.dir = <<"..", "work", "schemas">>],
     [FileA EXCEPT !.dir = <<"/", "work", "schemas">>]}

\* changed files as GitHub names them, relative to the root of the repository
ChangedPaths == {FileA, FileB, [FileA EXCEPT !.dir = <<".github", "schemas">>]}

MatchArgs ==
    [cwd : Cwds, other : Cwds, configPath : ConfigPaths, schema_path : SchemaPaths,
     file : ChangedPaths]

\* getInputs resolves the schema path of a subgraph and create, update or destroy
\* compares a changed file with it, in the working directory cwd and in another
CallMatch ==
    /\ probe.fn = "match"
    /\ LET a == probe.args
           schemaPath == SchemaPathOf(a.cwd, a.configPath, a.schema_path)
       IN Return([schemaPath |-> schemaPath,
                  matches |-> FileMatches(a.cwd, a.file, schemaPath),
                  matchesOther |->
                      FileMatches(a.other, a.file,
                                  SchemaPathOf(a.other, a.configPath, a.schema_path))])

\* statuses GitHub gives a file of a commit, "none" for a file the commit leaves out
CommitStatuses == {"none", "added", "removed", "modified", "renamed"}

\* filtered changed-file lists of a PR: schema files, a file also twice
ChangedLists == {<<>>, <<FileA>>, <<FileB>>, <<FileB, FileA>>, <<FileB, FileA, FileB>>}

\* the number of commits the PR has
CommitCounts == {0, 1, 2}

RemovedArgs ==
    [n : CommitCounts, l : [Files -> CommitStatuses] \cup {NoFileList},
     changedGraphQLFilesInPr : ChangedLists]

\* update calls the revert detector
CallRemoved ==
    /\ probe.fn = "removed"
    /\ LET a == probe.args IN
       Return(getRemovedGraphQLFilesInLastCommit(a.n, a.l, a.changedGraphQLFilesInPr))

\* the path a renamed file had on the base branch
FileOld == [dir |-> <<"schemas">>, stem |-> "accounts", ext |-> "graphqls"]

\* no previous_filename: the item is not a rename
NoFile == [dir |-> <<>>, stem |-> "", ext |-> ""]

\* statuses pulls.listFiles gives a file, and one the action does not know
ItemStatuses ==
    {"added", "removed", "modified", "renamed", "copied", "changed", "unchanged", "other"}

\* the entries of pulls.listFiles: a renamed file comes with its previous name
DiffItems ==
    {[filename |-> f, status |-> st,
      previous_filename |-> IF st = "renamed" THEN FileOld ELSE NoFile] :
        f \in Files, st \in ItemStatuses}

\* replies of pulls.listFiles: one or two files
DiffLists ==
    {<<x>> : x \in DiffItems}
        \cup {xy \in DiffItems \X DiffItems : xy[1].filename # xy[2].filename}

\* no pattern, and the patterns run() passes
PatternLists == {<<>>, SchemaPatterns}

ChangedArgs == [items : DiffLists, filePatterns : PatternLists]

\* run() sorts the files of the PR into buckets and filters them
CallChanged ==
    /\ probe.fn = "changed"
    /\ LET a == probe.args
           allDiffFiles == Bucket(a.items, EmptyChangedFiles)
       IN Return([allDiffFiles |-> allDiffFiles,
                  changedFiles |-> getFilteredChangedFiles(allDiffFiles, a.filePatterns)])

InitFunctions ==
    /\ InitPR
    /\ probe \in {Call("match", a) : a \in MatchArgs}
                 \cup {Call("removed", a) : a \in RemovedArgs}
                 \cup {Call("changed", a) : a \in ChangedArgs}

NextFunctions ==
    \/ CallMatch
    \/ CallRemoved
    \/ CallChanged

SpecFunctions == InitFunctions /\ [][NextFunctions]_vars

----------------------------------------------------------------------------
(* C21 *)

\* the path does not lead out of the directory it is taken from
StaysInside(p) ==
    /\ ~IsAbsolute(p)
    /\ LET n == NormalizeOnto(<<"#">>, p.dir) IN n # <<>> /\ n[1] = "#"

\* C21 as stated: the schema path of a subgraph (relative, not leaving its base) is
\* resolved from the directory of the manifest file, and whether a changed file
\* matches the subgraph is the same in every working directory.  The first half
\* fails for the manifest at .github/cosmo.yaml.
C21_AsStated ==
    probe.fn = "match" /\ probe.done /\ StaysInside(probe.args.schema_path) =>
        /\ probe.result.schemaPath =
              SchemaPathAtManifest(probe.args.cwd, probe.args.configPath,
                                   probe.args.schema_path)
        /\ probe.result.matches = probe.result.matchesOther

\* C21, amended: the schema path of a subgraph is resolved from the working
\* directory of the invocation, the base every changed file is resolved from too;
\* for a relative schema path that stays inside the working directory a changed
\* file matches exactly when the two paths, normalized, are the same path of the
\* repository, wherever the manifest lies and whatever the working directory is.
C21_PathAnchoring ==
    probe.fn = "match" /\ probe.done =>
        /\ probe.result.schemaPath = Resolve(probe.args.cwd, probe.args.schema_path)
        /\ StaysInside(probe.args.schema_path) =>
              /\ probe.result.matches =
                    (Resolve(<<>>, probe.args.file) = Resolve(<<>>, probe.args.schema_path))
              /\ probe.result.matches = probe.result.matchesOther

\* a changed file matched a subgraph of a manifest that lies in .github, in two
\* different working directories
C21_Witness ==
    /\ probe.fn = "match" /\ probe.done
    /\ probe.args.configPath = FileCfg
    /\ probe.args.cwd # probe.args.other
    /\ StaysInside(probe.args.schema_path)
    /\ probe.args.schema_path # probe.args.file
    /\ probe.result.matches /\ probe.result.matchesOther

----------------------------------------------------------------------------
(* C22 *)

\* results of a command that failed: a failure status, text on stderr, no output,
\* a non-zero exit code
FailedResults == {"failure", "stderr", "empty", "rejected"}

\* C22: within one run no command that failed is issued again (nothing at all
\* follows a command that exited non-zero), and a create or update run issues at
\* most one feature-flag create or update for each configured flag.
C22_NoRetries ==
    \A r \in RunIds :
        LET run == runs[r] IN
        /\ \A j \in 1..Len(run.ops) :
              run.ops[j].result \in FailedResults =>
                  /\ \A k \in (j + 1)..Len(run.ops) :
                        ~(/\ run.ops[k].op = run.ops[j].op
                          /\ run.ops[k].ns = run.ops[j].ns
                          /\ run.ops[k].name = run.ops[j].name)
                  /\ \A k \in (j + 1)..Len(run.ops) :
                        run.ops[k].op \in {"feature-flag create", "feature-flag update"} =>
                            run.ops[k].name # run.ops[j].name
                  /\ run.ops[j].result = "rejected" => j = Len(run.ops) /\ run.pc = "done"
        /\ run.inputs.ok /\ run.actionType \in {"create", "update"} =>
              \A k \in 1..Len(run.inputs.featureFlags) :
                  LET name == DerivedFlagName(run.inputs.featureFlags[k].name, PrNumber) IN
                  Count(run.ops, "feature-flag create", run.inputs.namespace, name)
                      + Count(run.ops, "feature-flag update", run.inputs.namespace, name) <= 1

\* a run whose command for the first flag failed went on to the second flag and
\* ended
C22_Witness ==
    \E r \in RunIds :
        /\ runs[r].pc = "done" /\ ~runs[r].failed
        /\ \E j \in FlagWrites(runs[r].ops) :
              /\ runs[r].ops[j].result \in FailedResults
              /\ \E k \in FlagWrites(runs[r].ops) : k > j

----------------------------------------------------------------------------
(* C23 *)

\* the derived names of the feature subgraphs of the files of the list that match a
\* configured subgraph, in the order of the list
RECURSIVE MatchedNames(_, _)
MatchedNames(inputs, files) ==
    IF files = <<>> THEN <<>>
    ELSE LET k == FindSubgraph(inputs, Head(files)) IN
         (IF k = 0 THEN <<>>
          ELSE <<DerivedSubgraphName(inputs.subgraphs[k].name, inputs.namespace, PrNumber)>>)
         \o MatchedNames(inputs, Tail(files))

\* the update run is past its publish loop
PastPublish(run) == run.actionType = "update" /\ run.outDeploy.set

\* C23: in an update run every subgraph delete precedes every publish and every
\* publish precedes every feature-flag list, create and update; a run that is past
\* its publish loop has issued the subgraph delete of every reverted file that
\* matches a configured subgraph and one publish for every entry of the cumulative
\* changed-file list that matches a configured subgraph, in the order of the list,
\* whether the latest commit touched the file or not.
C23_UpdateOrdering ==
    \A r \in RunIds :
        LET run == runs[r] IN
        run.actionType = "update" =>
            /\ \A i \in Issued(run.ops, {"subgraph delete"}) :
                  \A j \in Issued(run.ops, {"publish"}) : i < j
            /\ \A i \in Issued(run.ops, {"publish", "subgraph delete"}) :
                  \A j \in Issued(run.ops, FlagOps) : i < j
            /\ PastPublish(run) =>
                  /\ TargetsOf(run.ops, {"subgraph delete"})
                        = MatchedNames(run.inputs, run.removed)
                  /\ TargetsOf(run.ops, {"publish"}) = MatchedNames(run.inputs, run.changed)
                  /\ run.removed
                        = getRemovedGraphQLFilesInLastCommit(ncommits, last, run.changed)
                  /\ run.changed
                        = getFilteredChangedFiles(getChangedFilesFromGithubAPI(head),
                                                  SchemaPatterns)

\* an update run that deleted the feature subgraph of a reverted file, published
\* one of a file the latest commit did not touch, and then wrote the flags
C23_Witness ==
    \E r \in RunIds :
        /\ runs[r].actionType = "update" /\ runs[r].pc = "done" /\ ~runs[r].failed
        /\ Issued(runs[r].ops, {"subgraph delete"}) # {}
        /\ FlagWrites(runs[r].ops) # {}
        /\ \E k \in 1..Len(runs[r].changed) :
              /\ last[runs[r].changed[k]] = "none"
              /\ FindSubgraph(runs[r].inputs, runs[r].changed[k]) # 0

----------------------------------------------------------------------------
(* C24 *)

\* C24: when a create or update run has ended its flag loop and posted its report,
\* every flag for which it issued a feature-flag create or update is in exactly one
\* of the deployed list and the failure map, whatever the command printed.  It
\* fails for a command that exits zero and prints nothing: the flag is in neither.
C24_Accounted ==
    \A r \in RunIds :
        LET run == runs[r] IN
        /\ run.actionType \in {"create", "update"}
        /\ run.pc = "done" /\ ~run.failed
        => \A j \in FlagWrites(run.ops) :
              Includes(run.deployed, run.ops[j].name) # Includes(run.errs, run.ops[j].name)

----------------------------------------------------------------------------
(* C25 *)

\* C25: the feature-flag create an update run issues for a flag missing from the
\* list result carries what a create run passes for the flag and the published
\* names (namespace, labels, feature subgraphs, the enabled option), and the flag
\* it creates is enabled.  It fails: the command of update has no enabled option.
C25_SelfHealedLikeCreate ==
    \A r \in RunIds :
        LET run == runs[r] IN
        run.actionType = "update" /\ Undisturbed =>
            \A j \in Issued(run.ops, {"feature-flag create"}) :
                \E k \in 1..Len(run.inputs.featureFlags) :
                    LET featureFlag == run.inputs.featureFlags[k]
                        asCreate == FlagCmd("create", run.inputs.namespace,
                                            CreateFlagName(featureFlag, PrNumber),
                                            featureFlag.labels, run.ops[j].subs, TRUE)
                    IN /\ run.ops[j] = [asCreate EXCEPT !.result = run.ops[j].result]
                       /\ flags[FlagKey(run.ops[j].ns, run.ops[j].name)].enabled

----------------------------------------------------------------------------
(* C26 *)

C26_WitnessEmpty ==
    /\ probe.fn = "removed" /\ probe.done
    /\ probe.args.n > 0 /\ probe.args.l = NoFileList

----------------------------------------------------------------------------
(* C27, C28 *)

\* the number of entries of a list that are x
Occurrences(s, x) == Cardinality({k \in 1..Len(s) : s[k] = x})

\* the number of entries of all buckets that are x
CountInBuckets(allDiffFiles, x) ==
    Cardinality({tk \in (DOMAIN allDiffFiles) \X (1..2) :
                    tk[2] <= Len(allDiffFiles[tk[1]]) /\ allDiffFiles[tk[1]][tk[2]] = x})

\* C27: for a file reported as renamed from P (previous_filename) to Q (filename),
\* the changed-file record holds P in the Deleted bucket and Q in the Added bucket,
\* nothing in the Renamed bucket, and both entries pass through the schema filter.
C27_RenameAsDeletePlusAdd ==
    probe.fn = "changed" /\ probe.done =>
        LET a == probe.args
            all == probe.result.allDiffFiles
        IN \A k \in 1..Len(a.items) :
              a.items[k].status = "renamed" =>
                  /\ Includes(all["D"], a.items[k].previous_filename)
                  /\ Includes(all["A"], a.items[k].filename)
                  /\ all["R"] = <<>>
                  /\ a.filePatterns = SchemaPatterns =>
                        /\ mmMatches(a.items[k].previous_filename, SchemaPatterns)
                              => Includes(probe.result.changedFiles,
                                          a.items[k].previous_filename)
                        /\ mmMatches(a.items[k].filename, SchemaPatterns)
                              => Includes(probe.result.changedFiles, a.items[k].filename)

\* what the record holds for a rename: the new path in the Added and in the Deleted
\* bucket, the old path nowhere, nothing in the Renamed bucket
C27_NewPathInBoth ==
    probe.fn = "changed" /\ probe.done =>
        LET a == probe.args
            all == probe.result.allDiffFiles
        IN \A k \in 1..Len(a.items) :
              a.items[k].status = "renamed" =>
                  /\ Includes(all["D"], a.items[k].filename)
                  /\ Includes(all["A"], a.items[k].filename)
                  /\ all["R"] = <<>>
                  /\ CountInBuckets(all, a.items[k].previous_filename) = 0
                  /\ a.filePatterns = SchemaPatterns
                        /\ mmMatches(a.items[k].filename, SchemaPatterns)
                        => Occurrences(probe.result.changedFiles, a.items[k].filename) = 2

\* C28: getFilteredChangedFiles returns a path once for every bucket entry that
\* holds it when the path matches a pattern, whatever the bucket, the Deleted bucket
\* included, and never otherwise; with an empty pattern list it returns every entry
\* of every bucket.
C28_ChangeKindIndependent ==
    probe.fn = "changed" /\ probe.done =>
        LET a == probe.args
            all == probe.result.allDiffFiles
            changedFiles == probe.result.changedFiles
        IN /\ \A f \in Files \cup {FileOld} :
                 Occurrences(changedFiles, f) =
                     IF a.filePatterns = <<>> \/ mmMatches(f, a.filePatterns)
                     THEN CountInBuckets(all, f) ELSE 0
           /\ \A k \in 1..Len(a.items) :
                 mmMatches(a.items[k].filename, a.filePatterns)
                     => Includes(changedFiles, a.items[k].filename)
           /\ a.filePatterns = <<>> =>
                 \A k \in 1..Len(a.items) : Includes(changedFiles, a.items[k].filename)

\* the filter kept a schema file of the Deleted bucket and dropped the manifest
C28_Witness ==
    /\ probe.fn = "changed" /\ probe.done
    /\ probe.args.filePatterns = SchemaPatterns
    /\ probe.result.allDiffFiles["D"] = <<FileB>>
    /\ probe.result.allDiffFiles["M"] = <<FileCfg>>
    /\ probe.result.changedFiles = <<FileB>>

\* the filter without patterns returned a removed schema file and the manifest
C28_WitnessNoPatterns ==
    /\ probe.fn = "changed" /\ probe.done
    /\ probe.args.filePatterns = <<>>
    /\ probe.result.allDiffFiles["D"] = <<FileB>>
    /\ Includes(probe.result.changedFiles, FileB)
    /\ Includes(probe.result.changedFiles, FileCfg)

\* the publishes of a create or update run follow the filtered changed-file list of
\* the cumulative diff, one for every entry that matches a configured subgraph,
\* whatever the status of the file in the diff; a run that is past its publish loop
\* has issued them all
C28_PublishWhateverKind ==
    \A r \in RunIds :
        LET run == runs[r] IN
        run.actionType \in {"create", "update"} /\ run.inputs.ok =>
            /\ IsPrefix(TargetsOf(run.ops, {"publish"}),
                        MatchedNames(run.inputs, run.changed))
            /\ run.outDeploy.set =>
                  TargetsOf(run.ops, {"publish"}) = MatchedNames(run.inputs, run.changed)
            /\ Issued(run.ops, {"publish"}) # {} \/ run.outDeploy.set =>
                  \A f \in Files : InDiff(f) /\ IsSchemaFile(f) <=> Includes(run.changed, f)

\* a run issued the publish of the feature subgraph of a schema file the PR removes
C28_WitnessPublishDeleted ==
    \E r \in RunIds :
        /\ runs[r].actionType \in {"create", "update"} /\ runs[r].inputs.ok
        /\ \E f \in Files :
              /\ DiffStatus(f, head) = "removed"
              /\ FindSubgraph(runs[r].inputs, f) # 0
              /\ \E j \in Issued(runs[r].ops, {"publish"}) :
                    runs[r].ops[j].name =
                        DerivedSubgraphName(
                            runs[r].inputs.subgraphs[FindSubgraph(runs[r].inputs, f)].name,
                            runs[r].inputs.namespace, PrNumber)

----------------------------------------------------------------------------
(* C29 *)

\* the routing URLs of the manifest's subgraphs for this PR, written out
ExpectedURL(baseSubgraphName) ==
    CASE baseSubgraphName = "products" -> "http://products-42.svc"
      [] baseSubgraphName = "users" -> "http://users.svc/42/42"
      [] OTHER -> "none"

\* every record of the lists and outputs of a run
OutputRecords(run) ==
    Range(run.toDeploy) \cup Range(run.toDestroy)
        \cup Range(run.outDeploy.value) \cup Range(run.outDestroy.value)

\* C29: the routing URL of every publish issued by create and update and of every
\* output record of create, update and destroy is the template of the subgraph with
\* each placeholder replaced by the PR number: one URL for a subgraph and the PR,
\* whichever of the three events the run serves.
C29_RoutingUrlSubstitution ==
    \A r \in RunIds :
        /\ \A j \in Issued(runs[r].ops, {"publish"}) :
              /\ runs[r].actionType \in {"create", "update"}
              /\ runs[r].ops[j].url = ExpectedURL(runs[r].ops[j].base)
        /\ \A rec \in OutputRecords(runs[r]) :
              /\ rec.baseSubgraphName \in {"products", "users"}
              /\ rec.routingUrl = ExpectedURL(rec.baseSubgraphName)

\* a run of the given event left an output record for the subgraph whose template
\* holds the placeholder twice
RecordOfUsers(event) ==
    \E r \in RunIds :
        /\ runs[r].actionType = event
        /\ \E x \in Range(runs[r].outDeploy.value) \cup Range(runs[r].outDestroy.value) :
              x.baseSubgraphName = "users" /\ x.routingUrl = "http://users.svc/42/42"

\* a destroy run deleted the feature subgraph of that subgraph and set the output
C29_Witness == RecordOfUsers("destroy")

\* a create run and an update run published it with that URL and set the output
C29_WitnessCreate ==
    /\ RecordOfUsers("create")
    /\ \E r \in RunIds, j \in 1..3 :
          /\ j \in Issued(runs[r].ops, {"publish"})
          /\ runs[r].ops[j].url = "http://users.svc/42/42"

C29_WitnessUpdate ==
    /\ RecordOfUsers("update")
    /\ \E r \in RunIds, j \in 1..3 :
          /\ j \in Issued(runs[r].ops, {"publish"})
          /\ runs[r].ops[j].url = "http://users.svc/42/42"

----------------------------------------------------------------------------
(* C30 *)

\* the commands of the given kinds, in the order of the log
Commands(ops, kinds) ==
    LET Hit(command) == command.op \in kinds IN SelectSeq(ops, Hit)

\* the output holds one record per command of the kinds, in the order of the log
Mirrors(output, run, kinds) ==
    LET commands == Commands(run.ops, kinds) IN
    /\ output.set
    /\ Len(output.value) = Len(commands)
    /\ \A k \in 1..Len(commands) :
          /\ output.value[k].featureSubgraphName = commands[k].name
          /\ \E j \in 1..Len(run.inputs.subgraphs) :
                /\ output.value[k].baseSubgraphName = run.inputs.subgraphs[j].name
                /\ output.value[k].schemaPath = run.inputs.subgraphs[j].schemaPath
          /\ commands[k].op = "publish" =>
                /\ output.value[k].baseSubgraphName = commands[k].base
                /\ output.value[k].routingUrl = commands[k].url

\* the run got to the end of the loops over the changed files
ReachedOutput(run) ==
    /\ run.procedure # "none"
    /\ \/ run.pc \in {"create flags", "update list", "update flags"}
       \/ run.pc = "done" /\ ~run.failed
       \/ FlagWrites(run.ops) # {} \/ Issued(run.ops, {"feature-flag list"}) # {}

\* C30 as stated: a run that reaches the output step has both outputs set,
\* feature_subgraphs_to_deploy with one record per publish of the run and
\* feature_subgraphs_to_destroy with one record per subgraph delete, in issue order.
C30_BothOutputsSet ==
    \A r \in RunIds :
        LET run == runs[r] IN
        ReachedOutput(run) =>
            /\ Mirrors(run.outDeploy, run, {"publish"})
            /\ Mirrors(run.outDestroy, run, {"subgraph delete"})

\* C30, amended: a create run that reaches the output step has set
\* feature_subgraphs_to_deploy and never sets feature_subgraphs_to_destroy, a destroy
\* run has set feature_subgraphs_to_destroy and never sets feature_subgraphs_to_deploy,
\* an update run has set both; an output that is set holds one record per publish,
\* or per subgraph delete, issued in the run, in issue order, also when there is
\* none and the run returns at the empty list of published names.
C30_OutputsMirrorOperations ==
    \A r \in RunIds :
        LET run == runs[r] IN
        /\ run.outDeploy.set => Mirrors(run.outDeploy, run, {"publish"})
        /\ run.outDestroy.set => Mirrors(run.outDestroy, run, {"subgraph delete"})
        /\ run.outDeploy.set \/ run.outDestroy.set => ReachedOutput(run)
        /\ ReachedOutput(run) =>
              /\ run.outDeploy.set <=> run.procedure \in {"create", "update"}
              /\ run.outDestroy.set <=> run.procedure \in {"update", "destroy"}

\* an update run deleted the feature subgraph of a reverted file, published nothing,
\* set both outputs and returned at the empty list
C30_Witness ==
    \E r \in RunIds :
        /\ runs[r].procedure = "update" /\ runs[r].pc = "done" /\ ~runs[r].failed
        /\ runs[r].outDeploy.set /\ runs[r].outDeploy.value = <<>>
        /\ runs[r].outDestroy.set /\ Len(runs[r].outDestroy.value) = 1

\* a create run that published two feature subgraphs and one that published none
C30_WitnessCreate ==
    \E r \in RunIds :
        /\ runs[r].procedure = "create" /\ runs[r].pc = "done" /\ ~runs[r].failed
        /\ runs[r].outDeploy.set /\ Len(runs[r].outDeploy.value) = 2

C30_WitnessCreateEmpty ==
    \E r \in RunIds :
        /\ runs[r].procedure = "create" /\ runs[r].pc = "done" /\ ~runs[r].failed
        /\ runs[r].outDeploy.set /\ runs[r].outDeploy.value = <<>>

----------------------------------------------------------------------------
(* C31 *)

\* C31: a create or update run publishes each derived feature-subgraph name at most
\* once, and the feature-subgraph list of every feature-flag create and update
\* holds each name at most once, also when a path of the changed-file record is in
\* more than one bucket.  Stated for the histories in which no command was
\* rejected, no run ended failed and the manifest is unchanged.
C31_NoDuplicateWork ==
    \A r \in RunIds :
        LET run == runs[r] IN
        run.actionType \in {"create", "update"} /\ Undisturbed =>
            /\ \A j \in Issued(run.ops, {"publish"}) :
                  Count(run.ops, "publish", run.ops[j].ns, run.ops[j].name) = 1
            /\ \A j \in FlagWrites(run.ops) :
                  \A name \in Range(run.ops[j].subs) : Occurrences(run.ops[j].subs, name) = 1

\* what holds: a name is published, and listed, once for every entry of the filtered
\* changed-file list that matches its subgraph
C31_OncePerListEntry ==
    \A r \in RunIds :
        LET run == runs[r] IN
        run.actionType \in {"create", "update"} /\ run.inputs.ok =>
            /\ IsPrefix(TargetsOf(run.ops, {"publish"}), MatchedNames(run.inputs, run.changed))
            /\ \A j \in FlagWrites(run.ops) :
                  run.ops[j].subs = MatchedNames(run.inputs, run.changed)

----------------------------------------------------------------------------
(* C32 *)

\* the publishes of the log that exited non-zero
RejectedPublishes(ops) == {j \in Issued(ops, {"publish"}) : ops[j].result = "rejected"}

\* C32: when a publish of a create or update run is rejected, the run is marked
\* failed and has ended, the publish is the last command of its log (no later
\* publish, no feature-flag command), no output is set and no comment is posted,
\* and the feature subgraphs the run published before exist and the ones it
\* deleted before are gone.
C32_PublishFailureAborts ==
    \A r \in RunIds :
        LET run == runs[r] IN
        \A j \in RejectedPublishes(run.ops) :
            /\ run.actionType \in {"create", "update"}
            /\ run.failed /\ run.pc = "done"
            /\ j = Len(run.ops)
            /\ Issued(run.ops, FlagOps) = {}
            /\ ~run.outDeploy.set /\ ~run.outDestroy.set
            /\ run.comments = <<>>
            /\ \A i \in 1..(j - 1) :
                  /\ run.ops[i].op = "publish" =>
                        SubgraphKey(run.ops[i].ns, run.ops[i].name) \in subgraphs
                  /\ run.ops[i].op = "subgraph delete" =>
                        SubgraphKey(run.ops[i].ns, run.ops[i].name) \notin subgraphs

\* a create run published one feature subgraph and its second publish was rejected
C32_Witness ==
    \E r \in RunIds :
        /\ runs[r].actionType = "create"
        /\ RejectedPublishes(runs[r].ops) # {}
        /\ \E i \in Issued(runs[r].ops, {"publish"}) :
              /\ runs[r].ops[i].result # "rejected"
              /\ SubgraphKey(runs[r].ops[i].ns, runs[r].ops[i].name) \in subgraphs

\* an update run deleted the feature subgraph of a reverted file and its publish
\* was rejected
C32_WitnessUpdate ==
    \E r \in RunIds :
        /\ runs[r].actionType = "update"
        /\ RejectedPublishes(runs[r].ops) # {}
        /\ Issued(runs[r].ops, {"subgraph delete"}) # {}

----------------------------------------------------------------------------
(* C33 *)

\* the names of the flag creates and updates of the log with a result of the set
NamesWithResult(ops, results) ==
    {ops[j].name : j \in {i \in FlagWrites(ops) : ops[i].result \in results}}

\* the flag names of the rows of a table
RowFlags(rows) == {rows[k].flag : k \in 1..Len(rows)}

C33_WitnessAllDeployed ==
    \E r \in RunIds :
        /\ Len(runs[r].comments) = 1 /\ runs[r].comments[1].kind = "report"
        /\ Len(DeployedRows(runs[r].comments[1])) = 2

\* a report with both flags failed and no deployed table: the create run of a PR
\* reopened after a destroy run that ended early (SpecEvents)
C33_WitnessAllFailed ==
    \E r \in RunIds :
        /\ Len(runs[r].comments) = 1 /\ runs[r].comments[1].kind = "report"
        /\ Len(FailedRows(runs[r].comments[1])) = 2
        /\ DeployedRows(runs[r].comments[1]) = <<>>

\* a create run returned at the empty list without a comment
C33_WitnessShortCircuit ==
    \E r \in RunIds :
        /\ runs[r].procedure = "create" /\ runs[r].pc = "done" /\ ~runs[r].failed
        /\ runs[r].names = <<>> /\ runs[r].comments = <<>>

----------------------------------------------------------------------------
(* C34 *)

\* the manifest is among the changed files of the PR and of its latest commit
ManifestChanged == InDiff(FileCfg) /\ last[FileCfg] # "none"

\* C34: a create run and a destroy run are never stopped by the manifest guard, the
\* manifest being among the changed files of the PR and of its latest commit or
\* not: they post no manifest comment, only a rejected command or a failed whoami
\* ends them marked failed, and a run that ends without failure has gone through its procedure, a
\* create run publishing for every matching changed file, a destroy run deleting
\* every configured flag and the feature subgraph of every matching changed file.
C34_GuardOnUpdateOnly ==
    \A r \in RunIds :
        LET run == runs[r] IN
        run.actionType \in {"create", "destroy"} /\ run.inputs.ok =>
            /\ \A k \in 1..Len(run.comments) : run.comments[k] # ManifestComment
            /\ run.failed =>
                  run.ops # <<>> /\ run.ops[Len(run.ops)].result \in WhoamiFailures
            /\ run.pc \notin {"idle", "whoami", "classify"} /\ ~run.failed =>
                  run.procedure = run.actionType
            /\ run.pc = "done" /\ ~run.failed =>
                  IF run.actionType = "create"
                  THEN TargetsOf(run.ops, {"publish"}) = MatchedNames(run.inputs, run.changed)
                  ELSE /\ TargetsOf(run.ops, {"subgraph delete"})
                             = MatchedNames(run.inputs, run.changed)
                       /\ TargetsOf(run.ops, {"feature-flag delete"})
                             = [k \in 1..Len(run.inputs.featureFlags) |->
                                   DerivedFlagName(run.inputs.featureFlags[k].name, PrNumber)]

\* a create run published a feature subgraph and created a flag for a PR whose
\* latest commit changed the manifest
C34_Witness ==
    \E r \in RunIds :
        /\ runs[r].actionType = "create" /\ ManifestChanged
        /\ runs[r].pc = "done" /\ ~runs[r].failed
        /\ Issued(runs[r].ops, {"publish"}) # {}
        /\ FlagWrites(runs[r].ops) # {}

\* a destroy run deleted the flags and a feature subgraph for such a PR
C34_WitnessDestroy ==
    \E r \in RunIds :
        /\ runs[r].actionType = "destroy" /\ ManifestChanged
        /\ runs[r].pc = "done" /\ ~runs[r].failed
        /\ Issued(runs[r].ops, {"subgraph delete"}) # {}
        /\ Issued(runs[r].ops, {"feature-flag delete"}) # {}

----------------------------------------------------------------------------
(* C35 *)

\* the run ended marked failed before the query of the changed files and before
\* any command that changes the backend, with no output and no comment
EndedBeforeWork(run) ==
    /\ run.failed /\ run.pc = "done"
    /\ run.procedure = "none" /\ run.i = 0 /\ run.changed = <<>>
    /\ Issued(run.ops, MutatingOps \cup {"feature-flag list"}) = {}
    /\ ~run.outDeploy.set /\ ~run.outDestroy.set
    /\ run.comments = <<>>

\* C35: a run on an event without a pull request, and a run of any of the three
\* events whose wgc auth whoami exits non-zero, writes to stderr or yields no
\* organization details, ends marked failed before the query of the changed files
\* and before any publish, delete or feature-flag command; the failed whoami is
\* its last command, and the run outside a pull request issues no command at all.
C35_PreconditionAborts ==
    \A r \in RunIds :
        LET run == runs[r] IN
        /\ ~run.pullRequest => EndedBeforeWork(run) /\ run.ops = <<>>
        /\ \A j \in Issued(run.ops, {"whoami"}) :
              /\ j = 1
              /\ run.ops[j].result \in WhoamiFailures =>
                    EndedBeforeWork(run) /\ Len(run.ops) = 1
        /\ run.i > 0 =>
              /\ run.pullRequest
              /\ run.ops # <<>> /\ run.ops[1].op = "whoami"
              /\ run.ops[1].result \notin WhoamiFailures

\* a destroy run ended at a whoami that wrote to stderr, with the flags and feature
\* subgraphs of the PR in place
C35_Witness ==
    \E r \in RunIds :
        /\ runs[r].actionType = "destroy"
        /\ runs[r].ops # <<>> /\ runs[r].ops[1].result = "stderr"
        /\ runs[r].failed
        /\ subgraphs # {} /\ DOMAIN flags # {}

\* a run outside a pull request, and create and update runs without organization
\* details
C35_WitnessNoPullRequest ==
    \E r \in RunIds : ~runs[r].pullRequest /\ runs[r].failed /\ DOMAIN flags # {}

C35_WitnessNoDetails ==
    \E r \in RunIds :
        /\ runs[r].actionType = "update"
        /\ runs[r].ops # <<>> /\ runs[r].ops[1].result = "nodetails"

----------------------------------------------------------------------------
(* C36 *)

\* the step appends a feature-flag create to the log of the create run r
CreatesFlag(r) ==
    /\ runs[r].actionType = "create"
    /\ Len(runs'[r].ops) = Len(runs[r].ops) + 1
    /\ runs'[r].ops[Len(runs'[r].ops)].op = "feature-flag create"

----------------------------------------------------------------------------
(* C37 *)

\* the step appends a feature-flag create to the log of the update run r
UpdateCreatesFlag(r) ==
    /\ runs[r].actionType = "update"
    /\ Len(runs'[r].ops) = Len(runs[r].ops) + 1
    /\ runs'[r].ops[Len(runs'[r].ops)].op = "feature-flag create"

\* C37: with two update runs of the PR interleaved and no command failing on its
\* own, a feature-flag create is issued only for a flag that does not exist in the
\* namespace when the command is executed.
C37_ExistenceCheckHolds ==
    [][\A r \in RunIds :
          UpdateCreatesFlag(r) /\ faults' = 0 =>
              LET command == runs'[r].ops[Len(runs'[r].ops)] IN
              FlagKey(command.ns, command.name) \notin DOMAIN flags]_vars

\* what holds: the create is issued for a flag that was absent from the result of
\* the list the run issued just before it
C37_AbsentFromOwnList ==
    [][\A r \in RunIds :
          UpdateCreatesFlag(r) =>
              LET j == Len(runs'[r].ops) IN
              /\ j > 1
              /\ runs'[r].ops[j - 1].op = "feature-flag list"
              /\ runs'[r].ops[j - 1].out.printed
              /\ runs'[r].ops[j].name \notin runs'[r].ops[j - 1].out.names]_vars

====
